---------------------------- MODULE Spec2Model ----------------------------
(***************************************************************************)
(* Model of the custom agent client of the Agent 2 Agent sample:           *)
(*   src/custom_agent_client.py  CustomAgentConfig, CustomAgentClient,     *)
(*                               CustomAgentConfigLoader, the test drivers *)
(*   src/main.py                 CustomCloudAgent.process_task             *)
(*                                                                         *)
(* Python strings are sequences of one-character strings, so that          *)
(* startswith, upper, the substring test and str() are computed.  JSON     *)
(* values are tagged records [t, v]; a dict is a function from keys to     *)
(* JSON values.                                                            *)
(***************************************************************************)
EXTENDS Integers, Sequences, FiniteSets, TLC

(***************************************************************************)
(* Bounds of the model.                                                    *)
(***************************************************************************)
\* largest value of the retries setting that is explored
MaxRetries == 3
\* largest number of keys of a generated JSON object
MaxKeys == 3
\* largest number of a slot <PREFIX><n>_ set in a generated environment
MaxSlots == 2
\* largest number of agents of a batch
MaxAgents == 3
\* the number of add_custom_agent calls of a run of the manager
MaxAdds == 2
\* the number of processes of a run of the manager
MaxProcs == 2

(***************************************************************************)
(* Python strings.                                                         *)
(***************************************************************************)
K_jsonrpc  == <<"j","s","o","n","r","p","c">>
K_result   == <<"r","e","s","u","l","t">>
K_error    == <<"e","r","r","o","r">>
K_parts    == <<"p","a","r","t","s">>
K_text     == <<"t","e","x","t">>
K_message  == <<"m","e","s","s","a","g","e">>
K_response == <<"r","e","s","p","o","n","s","e">>
K_content  == <<"c","o","n","t","e","n","t">>
K_data     == <<"d","a","t","a">>
K_choices  == <<"c","h","o","i","c","e","s">>
K_other    == <<"x">>

S_hi       == <<"h","i">>
S_v20      == <<"2",".","0">>
S_None     == <<"N","o","n","e">>
S_AgentErr == <<"A","g","e","n","t"," ","e","r","r","o","r",":"," ">>
S_TypeError == <<"T","y","p","e","E","r","r","o","r">>
S_KeyError  == <<"K","e","y","E","r","r","o","r">>

\* str.startswith(prefix)
StartsWith(s, prefix) ==
    /\ Len(s) >= Len(prefix)
    /\ SubSeq(s, 1, Len(prefix)) = prefix

\* the substring test  sub in s  of two str
Contains(sub, s) ==
    \E i \in 0..(Len(s) - Len(sub)) : SubSeq(s, i + 1, i + Len(sub)) = sub

UpperChar(c) ==
    CASE c = "a" -> "A" [] c = "b" -> "B" [] c = "c" -> "C" [] c = "d" -> "D"
      [] c = "e" -> "E" [] c = "f" -> "F" [] c = "g" -> "G" [] c = "h" -> "H"
      [] c = "i" -> "I" [] c = "j" -> "J" [] c = "k" -> "K" [] c = "l" -> "L"
      [] c = "m" -> "M" [] c = "n" -> "N" [] c = "o" -> "O" [] c = "p" -> "P"
      [] c = "q" -> "Q" [] c = "r" -> "R" [] c = "s" -> "S" [] c = "t" -> "T"
      [] c = "u" -> "U" [] c = "v" -> "V" [] c = "w" -> "W" [] c = "x" -> "X"
      [] c = "y" -> "Y" [] c = "z" -> "Z" [] OTHER -> c

\* str.upper()
Upper(s) == [i \in 1..Len(s) |-> UpperChar(s[i])]

DigitChar(d) ==
    CASE d = 0 -> "0" [] d = 1 -> "1" [] d = 2 -> "2" [] d = 3 -> "3"
      [] d = 4 -> "4" [] d = 5 -> "5" [] d = 6 -> "6" [] d = 7 -> "7"
      [] d = 8 -> "8" [] OTHER -> "9"

RECURSIVE NatStr(_)
NatStr(n) == IF n < 10 THEN <<DigitChar(n)>>
             ELSE NatStr(n \div 10) \o <<DigitChar(n % 10)>>

\* str(n) of an int
IntStr(n) == IF n < 0 THEN <<"-">> \o NatStr(0 - n) ELSE NatStr(n)

(***************************************************************************)
(* JSON values, as response.json() yields them.                            *)
(***************************************************************************)
JStr(s)  == [t |-> "str",  v |-> s]
JNum(n)  == [t |-> "num",  v |-> n]
JNull    == [t |-> "null", v |-> 0]
JList(l) == [t |-> "list", v |-> l]
JDict(f) == [t |-> "dict", v |-> f]

IsStr(x)  == x.t = "str"
IsList(x) == x.t = "list"
IsDict(x) == x.t = "dict"

EmptyDict == <<>>
HasKey(d, k) == k \in DOMAIN d

\* the order in which the keys of a dict are rendered by str()
KeyOrder == <<K_jsonrpc, K_result, K_error, K_parts, K_text, K_message,
              K_response, K_content, K_data, K_choices, K_other>>

RECURSIVE JoinComma(_)
JoinComma(items) ==
    IF items = <<>> THEN <<>>
    ELSE IF Len(items) = 1 THEN items[1]
    ELSE items[1] \o <<",", " ">> \o JoinComma(Tail(items))

\* repr() of a JSON value: the text str() gives for a container
RECURSIVE PyRepr(_)
PyRepr(x) ==
    CASE x.t = "str"  -> <<"'">> \o x.v \o <<"'">>
      [] x.t = "num"  -> IntStr(x.v)
      [] x.t = "null" -> S_None
      [] x.t = "list" ->
            <<"[">> \o JoinComma([i \in 1..Len(x.v) |-> PyRepr(x.v[i])]) \o <<"]">>
      [] x.t = "dict" ->
            LET ks == SelectSeq(KeyOrder, LAMBDA k : k \in DOMAIN x.v)
            IN  <<"{">>
                \o JoinComma([i \in 1..Len(ks) |->
                       <<"'">> \o ks[i] \o <<"'", ":", " ">> \o PyRepr(x.v[ks[i]])])
                \o <<"}">>

\* str() of a JSON value: a str is itself, anything else its repr
PyStr(x) == IF x.t = "str" THEN x.v ELSE PyRepr(x)

\* the text of a reply body that parses to the JSON value x (response.text())
RECURSIVE JsonText(_)
JsonText(x) ==
    CASE x.t = "str"  -> <<"\"">> \o x.v \o <<"\"">>
      [] x.t = "num"  -> IntStr(x.v)
      [] x.t = "null" -> <<"n","u","l","l">>
      [] x.t = "list" ->
            <<"[">> \o JoinComma([i \in 1..Len(x.v) |-> JsonText(x.v[i])]) \o <<"]">>
      [] x.t = "dict" ->
            LET ks == SelectSeq(KeyOrder, LAMBDA k : k \in DOMAIN x.v)
            IN  <<"{">>
                \o JoinComma([i \in 1..Len(ks) |->
                       <<"\"">> \o ks[i] \o <<"\"", ":", " ">> \o JsonText(x.v[ks[i]])])
                \o <<"}">>


(***************************************************************************)
(* Python operations on a JSON value that can raise.  Each gives           *)
(* [st |-> "return" | "raise", val |-> ...].                               *)
(***************************************************************************)
Fall      == [st |-> "fall",   val |-> <<>>]
Ret(s)    == [st |-> "return", val |-> s]
Raise(e)  == [st |-> "raise",  val |-> e]

\* the first of two steps that does not fall through
OrElse(a, b) == IF a.st = "fall" THEN b ELSE a

\* len(x): defined on str, list and dict
PyLen(x) ==
    CASE x.t = "str"  -> Ret(Len(x.v))
      [] x.t = "list" -> Ret(Len(x.v))
      [] x.t = "dict" -> Ret(Cardinality(DOMAIN x.v))
      [] OTHER        -> Raise(S_TypeError)

\* x[0]: the first character of a str, the first element of a list; a dict
\* parsed from JSON has str keys only, so the key 0 is missing
PyFirst(x) ==
    CASE x.t = "str"  -> Ret(JStr(<<x.v[1]>>))
      [] x.t = "list" -> Ret(x.v[1])
      [] x.t = "dict" -> Raise(S_KeyError)
      [] OTHER        -> Raise(S_TypeError)

\* key in x, for a str key: substring of a str, element of a list, key of a dict
PyIn(key, x) ==
    CASE x.t = "str"  -> Ret(Contains(key, x.v))
      [] x.t = "list" -> Ret(\E i \in 1..Len(x.v) : x.v[i] = JStr(key))
      [] x.t = "dict" -> Ret(key \in DOMAIN x.v)
      [] OTHER        -> Raise(S_TypeError)

\* x[key], for a str key
PyGetItem(x, key) ==
    CASE x.t = "dict" -> IF key \in DOMAIN x.v THEN Ret(x.v[key]) ELSE Raise(S_KeyError)
      [] OTHER        -> Raise(S_TypeError)

(***************************************************************************)
(* CustomAgentClient._extract_message_from_response                        *)
(***************************************************************************)
\* if key in d: return str(d[key])
KeyStep(d, key) == IF HasKey(d, key) THEN Ret(PyStr(d[key])) ELSE Fall

\* lines 155-158: result.parts[0].text
PartsStep(result) ==
    IF HasKey(result, K_parts) /\ IsList(result[K_parts]) /\ Len(result[K_parts].v) > 0
    THEN LET first_part == result[K_parts].v[1]
         IN  IF IsDict(first_part) /\ HasKey(first_part.v, K_text)
             THEN Ret(PyStr(first_part.v[K_text]))
             ELSE Fall
    ELSE Fall

\* the JSON-RPC result with response looked up before message
ResultStepResponseFirst(d) ==
    IF HasKey(d, K_jsonrpc) /\ HasKey(d, K_result)
    THEN LET result == d[K_result]
         IN  IF IsDict(result)
             THEN OrElse(PartsStep(result.v),
                  OrElse(KeyStep(result.v, K_response),
                  OrElse(KeyStep(result.v, K_message),
                         KeyStep(result.v, K_content))))
             ELSE IF IsStr(result) THEN Ret(PyStr(result)) ELSE Fall
    ELSE Fall

\* lines 151-167: the JSON-RPC result
ResultStep(d) ==
    IF HasKey(d, K_jsonrpc) /\ HasKey(d, K_result)
    THEN LET result == d[K_result]
         IN  IF IsDict(result)
             THEN OrElse(PartsStep(result.v),
                  OrElse(KeyStep(result.v, K_message),
                  OrElse(KeyStep(result.v, K_response),
                         KeyStep(result.v, K_content))))
             ELSE IF IsStr(result) THEN Ret(PyStr(result)) ELSE Fall
    ELSE Fall

\* lines 170-171: the JSON-RPC error
ErrorStep(d) ==
    IF HasKey(d, K_jsonrpc) /\ HasKey(d, K_error)
    THEN Ret(S_AgentErr \o PyStr(d[K_error]))
    ELSE Fall

\* lines 186-188: data.message
DataStep(d) ==
    IF HasKey(d, K_data) /\ IsDict(d[K_data])
    THEN KeyStep(d[K_data].v, K_message)
    ELSE Fall

\* lines 193-194, on choice = choices[0]
ChoiceStep(choice) ==
    LET in1 == PyIn(K_message, choice)
    IN  IF in1.st = "raise" THEN in1
        ELSE IF ~in1.val THEN Fall
        ELSE LET msg == PyGetItem(choice, K_message)
             IN  IF msg.st = "raise" THEN msg
                 ELSE LET in2 == PyIn(K_content, msg.val)
                      IN  IF in2.st = "raise" THEN in2
                          ELSE IF ~in2.val THEN Fall
                          ELSE LET c == PyGetItem(msg.val, K_content)
                               IN  IF c.st = "raise" THEN c
                                   ELSE Ret(PyStr(c.val))

\* lines 191-194: the OpenAI-style response
ChoicesStep(d) ==
    IF HasKey(d, K_choices)
    THEN LET n == PyLen(d[K_choices])
         IN  IF n.st = "raise" THEN n
             ELSE IF ~(n.val > 0) THEN Fall
             ELSE LET choice == PyFirst(d[K_choices])
                  IN  IF choice.st = "raise" THEN choice
                      ELSE ChoiceStep(choice.val)
    ELSE Fall

\* lines 149-194: the branches taken for a dict, in the order of the code
DictSteps(d) ==
    OrElse(ResultStep(d),
    OrElse(ErrorStep(d),
    OrElse(KeyStep(d, K_message),
    OrElse(KeyStep(d, K_response),
    OrElse(KeyStep(d, K_content),
    OrElse(DataStep(d),
           ChoicesStep(d)))))))

\* the whole function: [st |-> "return", val |-> text] or [st |-> "raise", ...]
extract_message_from_response(response_data) ==
    OrElse(IF IsDict(response_data) THEN DictSteps(response_data.v) ELSE Fall,
           Ret(PyStr(response_data)))

(***************************************************************************)
(* CustomAgentConfig and the settings CustomAgentConfigLoader reads.       *)
(***************************************************************************)
\* None, for an Optional[str]
PyNone == JNull

S_NONE    == <<"N","O","N","E">>
S_NULL    == <<"N","U","L","L">>
S_none    == <<"n","o","n","e">>
S_NONE1   == <<"N","O","N","E","1">>
S_your    == <<"y","o","u","r","-">>
S_yourkey == <<"y","o","u","r","-","k">>
S_sk      == <<"s","k">>
S_Bearer  == <<"B","e","a","r","e","r"," ">>

\* the dataclass defaults of timeout and retries
DefaultTimeout == 30
DefaultRetries == 3
\* the defaults load_custom_agents gives os.getenv: "30" and "3"
LoaderDefaultTimeout == <<"3","0">>
LoaderDefaultRetries == <<"3">>

\* CustomAgentConfig.is_authenticated
is_authenticated(api_key) ==
    /\ api_key # PyNone
    /\ api_key.v # <<>>
    /\ ~StartsWith(api_key.v, S_NONE)

\* load_custom_agents, lines 254-256: the API key of a loaded config
LoaderApiKey(raw) ==
    IF \/ raw = PyNone
       \/ raw.v = <<>>
       \/ Upper(raw.v) \in {S_NONE, S_NULL, <<>>}
       \/ StartsWith(raw.v, S_your)
    THEN PyNone
    ELSE raw

DigitValue(c) ==
    CASE c = "0" -> 0 [] c = "1" -> 1 [] c = "2" -> 2 [] c = "3" -> 3
      [] c = "4" -> 4 [] c = "5" -> 5 [] c = "6" -> 6 [] c = "7" -> 7
      [] c = "8" -> 8 [] OTHER -> 9

RECURSIVE NatOf(_)
NatOf(s) == IF Len(s) = 0 THEN 0
            ELSE 10 * NatOf(SubSeq(s, 1, Len(s) - 1)) + DigitValue(s[Len(s)])

\* int(s) of a decimal text with an optional sign
PyInt(s) == IF Len(s) > 0 /\ s[1] = "-" THEN 0 - NatOf(Tail(s)) ELSE NatOf(s)

\* os.getenv(key, default): the value when set, the default otherwise
GetEnv(value, default) == IF value = PyNone THEN default ELSE value.v

\* load_custom_agents, line 221
LoaderTimeout(env) == PyInt(GetEnv(env, LoaderDefaultTimeout))
\* load_custom_agents, line 222
LoaderRetries(env) == PyInt(GetEnv(env, LoaderDefaultRetries))

\* the API keys explored: None and the texts a caller or the .env file gives
ApiKeys == {PyNone} \cup
           {JStr(k) : k \in {<<>>, S_NONE, S_NULL, S_none, S_NONE1, S_yourkey, S_sk}}

\* the retries values explored, and CUSTOM_AGENT_RETRIES unset or a decimal text
RetriesValues == (0 - 1)..MaxRetries
EnvRetries == {PyNone} \cup {JStr(IntStr(n)) : n \in RetriesValues}

MkConfig(origin, api_key, timeout, retries) ==
    [origin |-> origin, name |-> "agent", platform |-> "AWS",
     endpoint |-> "https://agent", api_key |-> api_key, favorite_color |-> "Red",
     timeout |-> timeout, retries |-> retries, agent_type |-> "custom"]

\* configs a caller builds directly
DirectConfigs ==
    {MkConfig("direct", k, DefaultTimeout, r) : k \in ApiKeys, r \in RetriesValues}

\* configs load_custom_agents builds from the environment (lines 262-271)
LoadedConfigs ==
    {MkConfig("loader", LoaderApiKey(raw), LoaderTimeout(PyNone), LoaderRetries(e)) :
        raw \in ApiKeys, e \in EnvRetries}

Configs == DirectConfigs \cup LoadedConfigs

(***************************************************************************)
(* CustomAgentConfigLoader: the environment is a function from the names   *)
(* of the variables that are set to their values.                          *)
(***************************************************************************)
\* str.lower()
Lower(s) ==
    LET LowerChar(c) ==
        CASE c = "A" -> "a" [] c = "B" -> "b" [] c = "C" -> "c" [] c = "D" -> "d"
          [] c = "E" -> "e" [] c = "F" -> "f" [] c = "G" -> "g" [] c = "H" -> "h"
          [] c = "I" -> "i" [] c = "J" -> "j" [] c = "K" -> "k" [] c = "L" -> "l"
          [] c = "M" -> "m" [] c = "N" -> "n" [] c = "O" -> "o" [] c = "P" -> "p"
          [] c = "Q" -> "q" [] c = "R" -> "r" [] c = "S" -> "s" [] c = "T" -> "t"
          [] c = "U" -> "u" [] c = "V" -> "v" [] c = "W" -> "w" [] c = "X" -> "x"
          [] c = "Y" -> "y" [] c = "Z" -> "z" [] OTHER -> c
    IN  [i \in 1..Len(s) |-> LowerChar(s[i])]

\* os.getenv(key): the value when the variable is set, None otherwise
getenv(env, key) == IF key \in DOMAIN env THEN JStr(env[key]) ELSE PyNone

\* the truth value of an Optional[str]: neither None nor ""
Truthy(x) == x # PyNone /\ x.v # <<>>

S_custom      == <<"c","u","s","t","o","m">>
S_builtin     == <<"b","u","i","l","t","i","n">>
S_true        == <<"t","r","u","e">>
S_placeholder == <<"h","t","t","p","s",":","/","/","y","o","u","r","-">>

K_TIMEOUT == <<"C","U","S","T","O","M","_","A","G","E","N","T","_","T","I","M","E","O","U","T">>
K_RETRIES == <<"C","U","S","T","O","M","_","A","G","E","N","T","_","R","E","T","R","I","E","S">>
K_USE     == <<"U","S","E","_","C","U","S","T","O","M","_","A","G","E","N","T","S">>
K_NAME     == <<"_","N","A","M","E">>
K_ENDPOINT == <<"_","E","N","D","P","O","I","N","T">>
K_API_KEY  == <<"_","A","P","I","_","K","E","Y">>
K_COLOR    == <<"_","C","O","L","O","R">>
K_TYPE     == <<"_","T","Y","P","E">>

\* lines 212-218, in the order platforms.items() gives
platforms ==
    <<[platform_name |-> <<"A","W","S">>, prefix |-> <<"A","W","S","_","A","G","E","N","T","_">>],
      [platform_name |-> <<"A","z","u","r","e">>, prefix |-> <<"A","Z","U","R","E","_","A","G","E","N","T","_">>],
      [platform_name |-> <<"G","C","P">>, prefix |-> <<"G","C","P","_","A","G","E","N","T","_">>],
      [platform_name |-> <<"M","u","l","t","i","-","C","l","o","u","d">>, prefix |-> <<"M","U","L","T","I","C","L","O","U","D","_","A","G","E","N","T","_">>],
      [platform_name |-> <<"B","u","i","l","t","I","n">>, prefix |-> <<"B","U","I","L","T","I","N","_","A","G","E","N","T","_">>]>>

\* CustomAgentConfig(...) as load_custom_agents builds it; endpoint is an
\* Optional[str] here, since os.getenv can give None
CustomAgentConfig(name, platform, endpoint, api_key, favorite_color, timeout, retries, agent_type) ==
    [origin |-> "loader", name |-> name, platform |-> platform,
     endpoint |-> endpoint, api_key |-> api_key, favorite_color |-> favorite_color,
     timeout |-> timeout, retries |-> retries, agent_type |-> agent_type]

\* the endpoint is not required of any agent
RequiredFieldsWithoutEndpoint(agent_type, name, color, endpoint) == <<name, color>>

\* lines 241-243: required_fields
RequiredFields(agent_type, name, color, endpoint) ==
    IF agent_type = S_custom THEN <<name, color, endpoint>> ELSE <<name, color>>

\* the scan of a platform ends at a slot whose endpoint is a placeholder
RECURSIVE ScanPlatformStopsAtPlaceholder(_, _, _, _, _)
ScanPlatformStopsAtPlaceholder(env, p, agent_num, timeout, retries) ==
    LET key(suffix) == p.prefix \o IntStr(agent_num) \o suffix
        name       == getenv(env, key(K_NAME))
        endpoint   == getenv(env, key(K_ENDPOINT))
        api_key    == getenv(env, key(K_API_KEY))
        color      == getenv(env, key(K_COLOR))
        agent_type == Lower(GetEnv(getenv(env, key(K_TYPE)), S_custom))
        required_fields == RequiredFields(agent_type, name, color, endpoint)
    IN  IF ~(\A i \in 1..Len(required_fields) : Truthy(required_fields[i]))
        THEN <<>>
        ELSE IF /\ agent_type = S_custom
                /\ Truthy(endpoint)
                /\ StartsWith(endpoint.v, S_placeholder)
        THEN <<>>
        ELSE <<CustomAgentConfig(name.v, p.platform_name,
                                 IF agent_type = S_builtin THEN JStr(<<>>) ELSE endpoint,
                                 LoaderApiKey(api_key), color.v, timeout, retries,
                                 agent_type)>>
             \o ScanPlatformStopsAtPlaceholder(env, p, agent_num + 1, timeout, retries)

\* lines 226-273: the while loop over the numbered agents of one platform,
\* from agent_num on
RECURSIVE ScanPlatform(_, _, _, _, _)
ScanPlatform(env, p, agent_num, timeout, retries) ==
    LET key(suffix) == p.prefix \o IntStr(agent_num) \o suffix
        name       == getenv(env, key(K_NAME))
        endpoint   == getenv(env, key(K_ENDPOINT))
        api_key    == getenv(env, key(K_API_KEY))
        color      == getenv(env, key(K_COLOR))
        agent_type == Lower(GetEnv(getenv(env, key(K_TYPE)), S_custom))
        required_fields == RequiredFields(agent_type, name, color, endpoint)
    IN  IF ~(\A i \in 1..Len(required_fields) : Truthy(required_fields[i]))
        THEN <<>>
        ELSE IF /\ agent_type = S_custom
                /\ Truthy(endpoint)
                /\ StartsWith(endpoint.v, S_placeholder)
        THEN ScanPlatform(env, p, agent_num + 1, timeout, retries)
        ELSE <<CustomAgentConfig(name.v, p.platform_name,
                                 IF agent_type = S_builtin THEN JStr(<<>>) ELSE endpoint,
                                 LoaderApiKey(api_key), color.v, timeout, retries,
                                 agent_type)>>
             \o ScanPlatform(env, p, agent_num + 1, timeout, retries)

\* line 224: the for loop over the platforms, from the i-th on
RECURSIVE ScanPlatforms(_, _, _, _)
ScanPlatforms(env, i, timeout, retries) ==
    IF i > Len(platforms) THEN <<>>
    ELSE ScanPlatform(env, platforms[i], 1, timeout, retries)
         \o ScanPlatforms(env, i + 1, timeout, retries)

\* CustomAgentConfigLoader.load_custom_agents
load_custom_agents(env) ==
    ScanPlatforms(env, 1, LoaderTimeout(getenv(env, K_TIMEOUT)),
                  LoaderRetries(getenv(env, K_RETRIES)))

\* CustomAgentConfigLoader.should_use_custom_agents
should_use_custom_agents(env) ==
    Lower(GetEnv(getenv(env, K_USE), <<"f","a","l","s","e">>)) = S_true

(***************************************************************************)
(* The environments explored: each numbered slot of a prefix holds one of  *)
(* a few settings of its five variables.                                   *)
(***************************************************************************)
\* the variable key set to value, nothing when value is None
Var(key, value) == IF value = PyNone THEN EmptyDict ELSE (key :> value.v)

SlotVars(prefix, num, name, endpoint, api_key, color, type) ==
    Var(prefix \o IntStr(num) \o K_NAME, name)
    @@ Var(prefix \o IntStr(num) \o K_ENDPOINT, endpoint)
    @@ Var(prefix \o IntStr(num) \o K_API_KEY, api_key)
    @@ Var(prefix \o IntStr(num) \o K_COLOR, color)
    @@ Var(prefix \o IntStr(num) \o K_TYPE, type)

S_a   == <<"a">>
S_b   == <<"b">>
S_Red == <<"R","e","d">>
S_url == <<"h","t","t","p","s",":","/","/","a">>
S_urlYour == <<"h","t","t","p","s",":","/","/","y","o","u","r","-","x">>

\* what the variables of a slot <PREFIX><num>_ can be set to
SlotChoices(prefix, num) ==
    {EmptyDict,
     SlotVars(prefix, num, JStr(S_a), JStr(S_url), PyNone, JStr(S_Red), PyNone),
     SlotVars(prefix, num, JStr(S_a), JStr(<<>>), PyNone, JStr(S_Red), PyNone),
     SlotVars(prefix, num, JStr(S_a), JStr(S_urlYour), PyNone, JStr(S_Red), PyNone),
     SlotVars(prefix, num, JStr(S_a), PyNone, PyNone, JStr(S_Red), JStr(<<"B","U","I","L","T","I","N">>)),
     SlotVars(prefix, num, JStr(S_a), PyNone, PyNone, JStr(S_Red), JStr(<<"o","t","h","e","r">>)),
     SlotVars(prefix, num, JStr(S_b), JStr(S_url), JStr(S_NONE), JStr(S_Red), JStr(<<"C","u","s","t","o","m">>)),
     SlotVars(prefix, num, PyNone, JStr(S_url), JStr(S_sk), JStr(S_Red), PyNone)}

\* the same for the slots of BUILTIN_AGENT_
BuiltInSlotChoices(num) ==
    {EmptyDict,
     SlotVars(platforms[5].prefix, num, JStr(S_b), PyNone, PyNone, JStr(S_Red), JStr(S_builtin)),
     SlotVars(platforms[5].prefix, num, JStr(S_b), JStr(S_url), PyNone, JStr(S_Red), PyNone)}

\* the environments whose slots 1..n of AWS_AGENT_ and BUILTIN_AGENT_ are set
RECURSIVE SlotEnvs(_)
SlotEnvs(n) ==
    IF n = 0 THEN {EmptyDict}
    ELSE {a @@ b @@ e : a \in SlotChoices(platforms[1].prefix, n),
                        b \in BuiltInSlotChoices(n), e \in SlotEnvs(n - 1)}

\* the environments load_custom_agents is run on: CUSTOM_AGENT_TIMEOUT and
\* CUSTOM_AGENT_RETRIES are unset or a decimal text, and GCP_AGENT_1_ is unset
\* or a custom agent
Envs(n) ==
    {e @@ g @@ Var(K_TIMEOUT, t) @@ Var(K_RETRIES, r) :
        e \in SlotEnvs(n),
        g \in {EmptyDict,
               SlotVars(platforms[3].prefix, 1, JStr(S_b), JStr(S_url), PyNone,
                        JStr(S_Red), PyNone)},
        t \in {PyNone, JStr(<<"0">>), JStr(<<"4","5">>)},
        r \in {PyNone, JStr(<<"-","1">>), JStr(<<"0">>), JStr(<<"2">>)}}

(***************************************************************************)
(* What one POST can come to: an HTTP reply, a timeout, a client error or  *)
(* any other fault.  A 200 reply carries a body that parses to a JSON      *)
(* value, or one response.json() rejects (ContentTypeError, a ClientError; *)
(* or a JSON decode error, a ValueError).  A reply of another status       *)
(* carries a body that would parse; the code reads it as text.             *)
(***************************************************************************)
S_err   == <<"e","r","r">>
S_HTTP  == <<"H","T","T","P"," ">>
S_colon == <<":"," ">>
S_Timeout1 == <<"T","i","m","e","o","u","t"," ","a","f","t","e","r"," ">>
S_Timeout2 == <<" ","s","e","c","o","n","d","s">>
S_Client == <<"C","l","i","e","n","t"," ","e","r","r","o","r",":"," ">>
S_Unexpected == <<"U","n","e","x","p","e","c","t","e","d"," ","e","r","r","o","r",":"," ">>
S_Failed1 == <<"F","a","i","l","e","d"," ","t","o"," ","c","o","n","t","a","c","t"," ",
               "c","u","s","t","o","m"," ","a","g","e","n","t"," ","a","f","t","e","r"," ">>
S_Failed2 == <<" ","a","t","t","e","m","p","t","s">>

\* {"jsonrpc": "2.0", "result": {"parts": [{"text": "hi"}]}}
BodyParts == JDict((K_jsonrpc :> JStr(S_v20)) @@
                   (K_result :> JDict(K_parts :> JList(<<JDict(K_text :> JStr(S_hi))>>))))
\* {"jsonrpc": "2.0", "error": {"message": "err"}}
BodyRpcError == JDict((K_jsonrpc :> JStr(S_v20)) @@
                      (K_error :> JDict(K_message :> JStr(S_err))))
\* {"x": "hi"}
BodyOther == JDict(K_other :> JStr(S_hi))
\* {"choices": 5}
BodyChoicesNum == JDict(K_choices :> JNum(5))

\* the bodies a 200 reply carries in the runs of send_message
ReplyBodies == {BodyParts, BodyRpcError, BodyOther, BodyChoicesNum}

\* the statuses other than 200 that are explored
OtherStatuses == {201, 404, 500}

HttpReply(status, parse, body) ==
    [kind |-> "http", status |-> status, parse |-> parse, body |-> body]

Outcomes ==
    {HttpReply(200, "ok", b) : b \in ReplyBodies}
    \cup {HttpReply(200, p, JNull) : p \in {"content_type", "decode"}}
    \cup {HttpReply(st, "ok", BodyParts) : st \in OtherStatuses}
    \cup {HttpReply(201, "ok", BodyRpcError)}
    \cup {[kind |-> k, status |-> 0, parse |-> "none", body |-> JNull] :
             k \in {"timeout", "client_error", "unexpected"}}

(***************************************************************************)
(* The agents of the workflow and the texts it writes (main.py).           *)
(***************************************************************************)
\* CustomCloudAgent.__init__
CustomCloudAgent(cfg) ==
    [class |-> "CustomCloudAgent", config |-> cfg, cloud_platform |-> cfg.platform,
     agent_name |-> cfg.name, favorite_color |-> cfg.favorite_color]

\* CloudAgent.__init__
CloudAgent(cloud_platform, agent_name, favorite_color) ==
    [class |-> "CloudAgent", cloud_platform |-> cloud_platform,
     agent_name |-> agent_name, favorite_color |-> favorite_color]

\* AgentResponse(...) of the agent's identity and a message
AgentResponse(agent, message) ==
    [cloud_platform |-> agent.cloud_platform, agent_name |-> agent.agent_name,
     favorite_color |-> agent.favorite_color, message |-> message]

\* main.py lines 73-80: fallback_message
fallback_message(agent, task, err) ==
    LET Fallback1 == <<"\n"," "," "," "," "," "," "," "," "," "," "," "," "," "," "," "," "," "," "," "," ","I"," ","a","m"," ">>
        Fallback2 == <<","," ","a"," ","c","u","s","t","o","m"," ","A","I"," ","a","g","e","n","t"," ","d","e","p","l","o","y","e","d"," ","o","n"," ">>
        Fallback3 == <<"."," ","\n"," "," "," "," "," "," "," "," "," "," "," "," "," "," "," "," "," "," "," "," ","M","y"," ","f","a","v","o","r","i","t","e"," ","c","o","l","o","r"," ","i","s"," ">>
        Fallback4 == <<"."," ","U","n","f","o","r","t","u","n","a","t","e","l","y",","," ","I","'","m"," ","c","u","r","r","e","n","t","l","y"," ","e","x","p","e","r","i","e","n","c","i","n","g"," ","\n"," "," "," "," "," "," "," "," "," "," "," "," "," "," "," "," "," "," "," "," ","c","o","n","n","e","c","t","i","v","i","t","y"," ","i","s","s","u","e","s",","," ","b","u","t"," ","I"," ","w","o","u","l","d"," ","c","o","n","t","r","i","b","u","t","e"," ","m","y"," ">>
        Fallback5 == <<"-","s","p","e","c","i","f","i","c"," ","e","x","p","e","r","t","i","s","e"," ","\n"," "," "," "," "," "," "," "," "," "," "," "," "," "," "," "," "," "," "," "," ","t","o"," ","h","e","l","p"," ","w","i","t","h",":"," ">>
        Fallback6 == <<"\n"," "," "," "," "," "," "," "," "," "," "," "," "," "," "," "," "," "," "," "," ","\n"," "," "," "," "," "," "," "," "," "," "," "," "," "," "," "," "," "," "," "," ","E","r","r","o","r",":"," ">>
        Fallback7 == <<"\n"," "," "," "," "," "," "," "," "," "," "," "," "," "," "," "," "," "," "," "," ">>
    IN  Fallback1
        \o agent.agent_name
        \o Fallback2
        \o agent.cloud_platform
        \o Fallback3
        \o agent.favorite_color
        \o Fallback4
        \o agent.cloud_platform
        \o Fallback5
        \o task
        \o Fallback6
        \o PyStr(err)
        \o Fallback7

\* main.py lines 91-95: error_message
unexpected_error_message(agent, e) ==
    LET ErrorMsg1 == <<"\n"," "," "," "," "," "," "," "," "," "," "," "," ","I"," ","a","m"," ">>
        ErrorMsg2 == <<","," ","a"," ","c","u","s","t","o","m"," ","A","I"," ","a","g","e","n","t"," ","o","n"," ">>
        ErrorMsg3 == <<"."," ","\n"," "," "," "," "," "," "," "," "," "," "," "," ","M","y"," ","f","a","v","o","r","i","t","e"," ","c","o","l","o","r"," ","i","s"," ">>
        ErrorMsg4 == <<"."," ","I"," ","e","n","c","o","u","n","t","e","r","e","d"," ","a","n"," ","u","n","e","x","p","e","c","t","e","d"," ","e","r","r","o","r"," ","\n"," "," "," "," "," "," "," "," "," "," "," "," ","w","h","i","l","e"," ","p","r","o","c","e","s","s","i","n","g"," ","t","h","e"," ","t","a","s","k",":"," ">>
        ErrorMsg5 == <<"\n"," "," "," "," "," "," "," "," "," "," "," "," ">>
    IN  ErrorMsg1
        \o agent.agent_name
        \o ErrorMsg2
        \o agent.cloud_platform
        \o ErrorMsg3
        \o agent.favorite_color
        \o ErrorMsg4
        \o e
        \o ErrorMsg5

\* main.py lines 242-248: sub_task
sub_task(main_task, agent) ==
    LET SubTask1 == <<"\n"," "," "," "," "," "," "," "," "," "," "," "," ","A","s"," ","p","a","r","t"," ","o","f"," ","a"," ","m","u","l","t","i","-","c","l","o","u","d"," ","w","o","r","k","f","l","o","w",","," ","p","l","e","a","s","e",":","\n"," "," "," "," "," "," "," "," "," "," "," "," ","1","."," ","I","n","t","r","o","d","u","c","e"," ","y","o","u","r","s","e","l","f"," ","w","i","t","h"," ","y","o","u","r"," ","c","l","o","u","d"," ","p","l","a","t","f","o","r","m"," ","a","n","d"," ","f","a","v","o","r","i","t","e"," ","c","o","l","o","r","\n"," "," "," "," "," "," "," "," "," "," "," "," ","2","."," ","C","o","n","t","r","i","b","u","t","e"," ","t","o"," ","t","h","i","s"," ","m","a","i","n"," ","t","a","s","k",":"," ">>
        SubTask2 == <<"\n"," "," "," "," "," "," "," "," "," "," "," "," ","3","."," ","P","r","e","p","a","r","e"," ","a"," ","h","a","n","d","o","f","f"," ","m","e","s","s","a","g","e"," ","f","o","r"," ","t","h","e"," ","n","e","x","t"," ","a","g","e","n","t"," ","i","n"," ","t","h","e"," ","w","o","r","k","f","l","o","w","\n"," "," "," "," "," "," "," "," "," "," "," "," ","4","."," ","M","e","n","t","i","o","n"," ","y","o","u","r"," ","s","p","e","c","i","f","i","c"," ","d","e","p","l","o","y","m","e","n","t"," ","c","a","p","a","b","i","l","i","t","i","e","s"," ","o","n"," ">>
        SubTask3 == <<"\n"," "," "," "," "," "," "," "," "," "," "," "," ">>
    IN  SubTask1
        \o main_task
        \o SubTask2
        \o agent.cloud_platform
        \o SubTask3

\* main.py line 268: the message of error_response
error_response_message(agent, e) ==
    LET ErrorResp1 == <<"A","g","e","n","t"," ">>
        ErrorResp2 == <<" ","e","n","c","o","u","n","t","e","r","e","d"," ","a","n"," ","e","r","r","o","r",":"," ">>
    IN  ErrorResp1
        \o agent.agent_name
        \o ErrorResp2
        \o e

\* the main_task given to execute_workflow
MainTask == <<"t">>

\* CustomCloudAgent.process_task, lines 64-102: what it returns when
\* send_message returned resp, or when e left the with statement
process_task_result(agent, task, resp, e) ==
    IF e # PyNone THEN AgentResponse(agent, unexpected_error_message(agent, e.v))
    ELSE IF resp.success THEN AgentResponse(agent, resp.message)
    ELSE AgentResponse(agent, fallback_message(agent, task, resp.error_message))

\* test_custom_agent_connection, lines 292-295: what it returns
test_custom_agent_connection_result(resp, e) ==
    IF e # PyNone THEN FALSE ELSE resp.success

\* custom_agent_client.py line 305: f"{agent.platform}-{agent.name}"
SummaryKey(cfg) == cfg.platform \o <<"-">> \o cfg.name

(***************************************************************************)
(* What a POST comes to in a batch run.  A POST to no URL (the endpoint of *)
(* a builtin config is "") reaches no server: it ends in a client error or *)
(* another fault.  A custom agent answers 200 with a parts text, answers   *)
(* 200 with a plain JSON string, answers 500, or does not answer in time.  *)
(***************************************************************************)
FaultOutcome(k) == [kind |-> k, status |-> 0, parse |-> "none", body |-> JNull]

\* a reply body: the JSON string with the text process_task writes for a
\* call of cfg's agent that ran out of time
EchoBody(cfg) ==
    JStr(fallback_message(CustomCloudAgent(cfg),
                          sub_task(MainTask, CustomCloudAgent(cfg)),
                          JStr(S_Timeout1 \o IntStr(cfg.timeout) \o S_Timeout2)))

\* what the POST of line 101 can come to, for the client of cfg under driver drv
PostOutcomes(drv, cfg) ==
    IF drv = "none" THEN Outcomes
    ELSE IF ~Truthy(cfg.endpoint)
    THEN {FaultOutcome("client_error"), FaultOutcome("unexpected")}
    ELSE {HttpReply(200, "ok", BodyParts), HttpReply(200, "ok", EchoBody(cfg)),
          HttpReply(500, "ok", BodyOther), FaultOutcome("timeout")}

\* main.py lines 46-59: enhanced_task
enhanced_task(agent, task) ==
    LET Enhanced1 == <<"\n"," "," "," "," "," "," "," "," "," "," "," "," "," "," "," "," ","Y","o","u"," ","a","r","e"," ">>
        Enhanced2 == <<","," ","a","n"," ","A","I"," ","a","g","e","n","t"," ","d","e","p","l","o","y","e","d"," ","o","n"," ">>
        Enhanced3 == <<" ","c","l","o","u","d"," ","p","l","a","t","f","o","r","m",".","\n"," "," "," "," "," "," "," "," "," "," "," "," "," "," "," "," ","Y","o","u","r"," ","f","a","v","o","r","i","t","e"," ","c","o","l","o","r"," ","f","r","o","m"," ","t","h","e"," ","r","a","i","n","b","o","w"," ","i","s"," ">>
        Enhanced4 == <<".","\n"," "," "," "," "," "," "," "," "," "," "," "," "," "," "," "," ","\n"," "," "," "," "," "," "," "," "," "," "," "," "," "," "," "," ","T","a","s","k",":"," ">>
        Enhanced5 == <<"\n"," "," "," "," "," "," "," "," "," "," "," "," "," "," "," "," ","\n"," "," "," "," "," "," "," "," "," "," "," "," "," "," "," "," ","P","l","e","a","s","e"," ","r","e","s","p","o","n","d"," ","a","s"," ">>
        Enhanced6 == <<" ","a","n","d"," ","m","a","k","e"," ","s","u","r","e"," ","t","o"," ","m","e","n","t","i","o","n",":","\n"," "," "," "," "," "," "," "," "," "," "," "," "," "," "," "," ","1","."," ","Y","o","u","r"," ","c","l","o","u","d"," ","p","l","a","t","f","o","r","m"," ","(">>
        Enhanced7 == <<")","\n"," "," "," "," "," "," "," "," "," "," "," "," "," "," "," "," ","2","."," ","Y","o","u","r"," ","n","a","m","e"," ","(">>
        Enhanced8 == <<")","\n"," "," "," "," "," "," "," "," "," "," "," "," "," "," "," "," ","3","."," ","Y","o","u","r"," ","f","a","v","o","r","i","t","e"," ","c","o","l","o","r"," ","(">>
        Enhanced9 == <<")","\n"," "," "," "," "," "," "," "," "," "," "," "," "," "," "," "," ","4","."," ","C","o","m","p","l","e","t","e"," ","t","h","e"," ","g","i","v","e","n"," ","t","a","s","k"," ","u","s","i","n","g"," ","y","o","u","r"," ","s","p","e","c","i","f","i","c"," ","e","x","p","e","r","t","i","s","e","\n"," "," "," "," "," "," "," "," "," "," "," "," "," "," "," "," ","\n"," "," "," "," "," "," "," "," "," "," "," "," "," "," "," "," ","K","e","e","p"," ","y","o","u","r"," ","r","e","s","p","o","n","s","e"," ","c","o","n","c","i","s","e"," ","a","n","d"," ","i","n"," ","c","h","a","r","a","c","t","e","r","."," ","F","o","c","u","s"," ","o","n"," ","h","o","w"," ","y","o","u","r"," ">>
        Enhanced10 == <<" ","d","e","p","l","o","y","m","e","n","t"," ","\n"," "," "," "," "," "," "," "," "," "," "," "," "," "," "," "," ","c","a","p","a","b","i","l","i","t","i","e","s"," ","c","o","n","t","r","i","b","u","t","e"," ","t","o"," ","s","o","l","v","i","n","g"," ","t","h","i","s"," ","t","a","s","k",".","\n"," "," "," "," "," "," "," "," "," "," "," "," "," "," "," "," ">>
    IN  Enhanced1
        \o agent.agent_name
        \o Enhanced2
        \o agent.cloud_platform
        \o Enhanced3
        \o agent.favorite_color
        \o Enhanced4
        \o task
        \o Enhanced5
        \o agent.agent_name
        \o Enhanced6
        \o agent.cloud_platform
        \o Enhanced7
        \o agent.agent_name
        \o Enhanced8
        \o agent.favorite_color
        \o Enhanced9
        \o agent.cloud_platform
        \o Enhanced10

\* the arguments of send_message: main.py line 62 (the context is left at its
\* default), custom_agent_client.py lines 288-291, and those of a direct caller
SendArgs(drv, cfg) ==
    CASE drv = "workflow" ->
            {[message |-> enhanced_task(CustomCloudAgent(cfg),
                                       sub_task(MainTask, CustomCloudAgent(cfg))),
              task_context |-> <<>>]}
      [] drv = "test_all" ->
            {[message |-> <<"H","e","l","l","o",","," ","t","h","i","s"," ","i","s"," ","a"," ","c","o","n","n","e","c","t","i","o","n"," ","t","e","s","t"," ","f","r","o","m"," ","t","h","e"," ","A","g","e","n","t"," ","2"," ","A","g","e","n","t"," ","w","o","r","k","f","l","o","w",".">>,
              task_context |-> <<"T","e","s","t","i","n","g"," ","c","o","n","n","e","c","t","i","v","i","t","y"," ","a","n","d"," ","b","a","s","i","c"," ","r","e","s","p","o","n","s","e"," ","c","a","p","a","b","i","l","i","t","i","e","s",".">>]}
      [] OTHER ->
            {[message |-> <<"m">>, task_context |-> <<>>],
             [message |-> <<"n">>, task_context |-> <<"c">>]}

(***************************************************************************)
(* CustomAgentClient                                                       *)
(***************************************************************************)
VARIABLES
    config,      \* self.config
    session,     \* self.session: "none", "open" or "closed"
    pc,          \* where the caller of the client is
    headers,     \* the headers send_message built
    payload,     \* the envelope send_message built
    attempt,     \* the loop variable of the retry loop
    last_error,  \* last_error of send_message
    response,    \* the CustomAgentResponse returned, PyNone before
    exc,         \* the exception that left send_message or the scope, PyNone if none
    trace,       \* the posts and sleeps of the call so far
    uuids,       \* how many uuid4() values have been drawn
    body,        \* the argument of a direct call of _extract_message_from_response
    out,         \* what that call came to
    environ,     \* os.environ after load_dotenv("custom_agents.env")
    driver,      \* the batch driver that runs: "none", "load", "workflow", "test_all"
    dpc,         \* where the batch driver is
    agents,      \* the list the driver iterates: agents, self.agents
    idx,         \* the position of the for loop in that list
    all_responses, \* all_responses of execute_workflow
    workflow_history, \* self.workflow_history
    results,     \* results of test_all_custom_agents
    calls,       \* one entry for each call the driver has completed
    config_file, \* the variables set in the file custom_agents.env
    mop,         \* the last operation of the configuration manager
    last_toggle, \* the last of enable/disable called in this process
    use_custom,  \* what should_use_custom_agents returned last
    added,       \* the add_custom_agent calls made, with the slot each wrote
    proc         \* the number of the running process

clientvars == <<config, session, pc, headers, payload, attempt, last_error,
                response, exc, trace, uuids>>
normvars == <<body, out>>
batchvars == <<environ, driver, dpc, agents, idx, all_responses, workflow_history,
               results, calls>>
mgrvars == <<config_file, mop, last_toggle, use_custom, added, proc>>
vars == <<clientvars, normvars, batchvars, mgrvars>>

NotCalled == [st |-> "none", val |-> <<>>]

NoHeaders == [none |-> TRUE]
NoPayload == [none |-> TRUE]

\* send_message, lines 87-94
BuildHeaders(cfg) ==
    IF is_authenticated(cfg.api_key)
    THEN [ContentType |-> "application/json",
          UserAgent |-> "SemanticKernel-Agent2Agent/1.0",
          Authorization |-> S_Bearer \o cfg.api_key.v]
    ELSE [ContentType |-> "application/json",
          UserAgent |-> "SemanticKernel-Agent2Agent/1.0"]

\* send_message, lines 60-85: the envelope, with the uuid4 drawn as id
BuildPayload(cfg, id, message, task_context) ==
    [messageId |-> id, text |-> message, context |-> task_context,
     name |-> cfg.name, platform |-> cfg.platform,
     favorite_color |-> cfg.favorite_color]

\* line 99: for attempt in range(self.config.retries)
LoopContinues(i, retries) == i < retries

\* line 107
IsSuccessStatus(status) == status = 200

\* a backoff after every failed attempt, the last one included
ShouldSleepAfterLast(i, retries) == i < retries

\* line 131
ShouldSleep(i, retries) == i < retries - 1

\* line 132
WaitTime(i) == 2 ^ i

\* the first diagnostic is kept, later ones are dropped
KeepFirstError(old, diagnostic) == IF old = PyNone THEN JStr(diagnostic) ELSE old

\* lines 122-129: last_error = ...
UpdateLastError(old, diagnostic) == JStr(diagnostic)

Failure(text) == [st |-> "failure", val |-> text]
Success(text) == [st |-> "success", val |-> text]

\* the try statement with a handler of asyncio.TimeoutError that raises again
AttemptResultTimeoutRaises(o, cfg) ==
    CASE o.kind = "http" ->
            IF IsSuccessStatus(o.status)
            THEN CASE o.parse = "content_type" -> Failure(S_Client \o S_err)
                   [] o.parse = "decode"       -> Failure(S_Unexpected \o S_err)
                   [] OTHER ->
                        LET m == extract_message_from_response(o.body)
                        IN  IF m.st = "raise"
                            THEN Failure(S_Unexpected \o m.val)
                            ELSE Success(m.val)
            ELSE Failure(S_HTTP \o IntStr(o.status) \o S_colon \o JsonText(o.body))
      [] o.kind = "timeout"      -> [st |-> "raise", val |-> S_err]
      [] o.kind = "client_error" -> Failure(S_Client \o S_err)
      [] OTHER                   -> Failure(S_Unexpected \o S_err)

\* the try statement without its last handler, except Exception
AttemptResultNoCatchAll(o, cfg) ==
    CASE o.kind = "http" ->
            IF IsSuccessStatus(o.status)
            THEN CASE o.parse = "content_type" -> Failure(S_Client \o S_err)
                   [] o.parse = "decode"       -> [st |-> "raise", val |-> S_err]
                   [] OTHER ->
                        LET m == extract_message_from_response(o.body)
                        IN  IF m.st = "raise" THEN m ELSE Success(m.val)
            ELSE Failure(S_HTTP \o IntStr(o.status) \o S_colon \o JsonText(o.body))
      [] o.kind = "timeout"      -> Failure(S_Timeout1 \o IntStr(cfg.timeout) \o S_Timeout2)
      [] o.kind = "client_error" -> Failure(S_Client \o S_err)
      [] OTHER                   -> [st |-> "raise", val |-> S_err]

\* a 200 reply whose body is of no use ends the call with an empty message
AttemptResultEndsOnBadBody(o, cfg) ==
    CASE o.kind = "http" ->
            IF IsSuccessStatus(o.status)
            THEN CASE o.parse = "content_type" -> Success(<<>>)
                   [] o.parse = "decode"       -> Success(<<>>)
                   [] OTHER ->
                        LET m == extract_message_from_response(o.body)
                        IN  IF m.st = "raise" THEN Success(<<>>) ELSE Success(m.val)
            ELSE Failure(S_HTTP \o IntStr(o.status) \o S_colon \o JsonText(o.body))
      [] o.kind = "timeout"      -> Failure(S_Timeout1 \o IntStr(cfg.timeout) \o S_Timeout2)
      [] o.kind = "client_error" -> Failure(S_Client \o S_err)
      [] OTHER                   -> Failure(S_Unexpected \o S_err)

\* lines 100-129: one pass of the try statement on the outcome of the POST
AttemptResult(o, cfg) ==
    CASE o.kind = "http" ->
            IF IsSuccessStatus(o.status)
            THEN CASE o.parse = "content_type" -> Failure(S_Client \o S_err)
                   [] o.parse = "decode"       -> Failure(S_Unexpected \o S_err)
                   [] OTHER ->
                        LET m == extract_message_from_response(o.body)
                        IN  IF m.st = "raise"
                            THEN Failure(S_Unexpected \o m.val)
                            ELSE Success(m.val)
            ELSE Failure(S_HTTP \o IntStr(o.status) \o S_colon \o JsonText(o.body))
      [] o.kind = "timeout"      -> Failure(S_Timeout1 \o IntStr(cfg.timeout) \o S_Timeout2)
      [] o.kind = "client_error" -> Failure(S_Client \o S_err)
      [] OTHER                   -> Failure(S_Unexpected \o S_err)

\* CustomAgentResponse(...)
MkResponse(cfg, message, success, error_message) ==
    [cloud_platform |-> cfg.platform, agent_name |-> cfg.name,
     favorite_color |-> cfg.favorite_color, message |-> message,
     success |-> success, error_message |-> error_message]

\* every attempt posts an envelope with a message id of its own
PostEventFreshId(i, o, h, p, url) ==
    [ev |-> "post", i |-> i, n |-> 0, o |-> o, h |-> h,
     p |-> [p EXCEPT !.messageId = p.messageId + i], url |-> url]

\* lines 101-105: session.post(self.config.endpoint, json=payload, headers=headers)
PostEvent(i, o, h, p, url) ==
    [ev |-> "post", i |-> i, n |-> 0, o |-> o, h |-> h, p |-> p, url |-> url]
SleepEvent(i, n) ==
    [ev |-> "sleep", i |-> i, n |-> n,
     o |-> [kind |-> "none", status |-> 0, parse |-> "none", body |-> JNull],
     h |-> NoHeaders, p |-> NoPayload, url |-> PyNone]

\* the configuration manager does not run
NoManager ==
    /\ config_file = EmptyDict
    /\ mop = "none"
    /\ last_toggle = "none"
    /\ use_custom = FALSE
    /\ added = <<>>
    /\ proc = 1

\* no batch driver runs
NoBatch ==
    /\ environ = EmptyDict
    /\ driver = "none"
    /\ dpc = "idle"
    /\ agents = <<>>
    /\ idx = 0
    /\ all_responses = <<>>
    /\ workflow_history = <<>>
    /\ results = EmptyDict
    /\ calls = <<>>

Init ==
    /\ config \in Configs
    /\ session = "none"
    /\ pc = "new"
    /\ headers = NoHeaders
    /\ payload = NoPayload
    /\ attempt = 0
    /\ last_error = PyNone
    /\ response = PyNone
    /\ exc = PyNone
    /\ trace = <<>>
    /\ uuids = 0
    /\ body = JNull
    /\ out = NotCalled
    /\ NoBatch
    /\ NoManager

\* __aenter__: async with CustomAgentClient(config) as client
aenter ==
    /\ pc = "new"
    /\ session' = "open"
    /\ pc' = "entered"
    /\ UNCHANGED <<config, headers, payload, attempt, last_error, response, exc,
                   trace, uuids>>
    /\ UNCHANGED <<normvars, batchvars, mgrvars>>

\* send_message, lines 55-96: the session check, the payload and the headers;
\* the retry loop of the call goes on in Attempt and ReturnFailure
send_message ==
    /\ pc = "entered"
    /\ IF session = "none"
       THEN /\ exc' = JStr(<<"R","u","n","t","i","m","e","E","r","r","o","r">>)
            /\ pc' = "raised"
            /\ UNCHANGED <<headers, payload, uuids>>
       ELSE /\ \E a \in SendArgs(driver, config) :
                 payload' = BuildPayload(config, uuids + 1, a.message, a.task_context)
            /\ uuids' = uuids + 1
            /\ headers' = BuildHeaders(config)
            /\ pc' = "loop"
            /\ exc' = exc
    /\ attempt' = 0
    /\ last_error' = PyNone
    /\ UNCHANGED <<config, session, response, trace>>
    /\ UNCHANGED <<normvars, batchvars, mgrvars>>

\* send_message, lines 99-133: one iteration of the retry loop
Attempt ==
    /\ pc = "loop"
    /\ LoopContinues(attempt, config.retries)
    /\ \E o \in PostOutcomes(driver, config) :
         LET r == AttemptResult(o, config)
             post == PostEvent(attempt, o, headers, payload, config.endpoint)
         IN  CASE r.st = "success" ->
                    /\ response' = MkResponse(config, r.val, TRUE, PyNone)
                    /\ trace' = Append(trace, post)
                    /\ pc' = "returned"
                    /\ UNCHANGED <<attempt, last_error, exc>>
               [] r.st = "failure" ->
                    /\ last_error' = UpdateLastError(last_error, r.val)
                    /\ trace' = IF ShouldSleep(attempt, config.retries)
                                THEN trace \o <<post, SleepEvent(attempt, WaitTime(attempt))>>
                                ELSE Append(trace, post)
                    /\ attempt' = attempt + 1
                    /\ UNCHANGED <<pc, response, exc>>
               [] OTHER ->
                    /\ exc' = JStr(r.val)
                    /\ trace' = Append(trace, post)
                    /\ pc' = "raised"
                    /\ UNCHANGED <<attempt, last_error, response>>
    /\ UNCHANGED <<config, session, headers, payload, uuids>>
    /\ UNCHANGED <<normvars, batchvars, mgrvars>>

\* send_message, lines 135-143: all retries failed
ReturnFailure ==
    /\ pc = "loop"
    /\ ~LoopContinues(attempt, config.retries)
    /\ response' = MkResponse(config,
                              S_Failed1 \o IntStr(config.retries) \o S_Failed2,
                              FALSE, last_error)
    /\ pc' = "returned"
    /\ UNCHANGED <<config, session, headers, payload, attempt, last_error, exc,
                   trace, uuids>>
    /\ UNCHANGED <<normvars, batchvars, mgrvars>>

\* a statement of the with-body other than send_message raises
ScopeFault ==
    /\ pc \in {"entered", "returned"}
    /\ exc' = JStr(S_err)
    /\ pc' = "faulted"
    /\ UNCHANGED <<config, session, headers, payload, attempt, last_error, response,
                   trace, uuids>>
    /\ UNCHANGED <<normvars, batchvars, mgrvars>>

\* the session is closed only when the with-body ended without an exception
CloseOnReturnOnly(s, raised) == IF s # "none" /\ ~raised THEN "closed" ELSE s

\* lines 49-50: if self.session: await self.session.close()
SessionAfterExit(s, raised) == IF s # "none" THEN "closed" ELSE s

\* __aexit__: the with-body is left, by return or by an exception
aexit ==
    /\ pc \in {"returned", "raised", "faulted"}
    /\ session' = SessionAfterExit(session, exc # PyNone)
    /\ pc' = "exited"
    /\ UNCHANGED <<config, headers, payload, attempt, last_error, response, exc,
                   trace, uuids>>
    /\ UNCHANGED <<normvars, batchvars, mgrvars>>

Next == aenter \/ send_message \/ Attempt \/ ReturnFailure \/ ScopeFault \/ aexit

Spec == Init /\ [][Next]_vars

(***************************************************************************)
(* Direct calls of _extract_message_from_response on generated bodies.     *)
(***************************************************************************)
\* the dicts with at most n of the keys ks, each key k with a value of valsOf[k]
RECURSIVE DictsOver(_, _, _)
DictsOver(ks, valsOf, n) ==
    IF ks = <<>> \/ n = 0 THEN {EmptyDict}
    ELSE DictsOver(Tail(ks), valsOf, n)
         \cup {(Head(ks) :> v) @@ f :
                  v \in valsOf[Head(ks)], f \in DictsOver(Tail(ks), valsOf, n - 1)}

T(c) == JStr(<<c>>)

\* values of result.parts
PartsVals ==
    {JNum(5), JList(<<>>), JList(<<JDict(K_other :> T("q"))>>),
     JList(<<JDict(K_text :> JNum(7))>>), JList(<<JDict(K_text :> T("p")), JNum(5)>>)}

\* values of result: objects of at most n keys, and other values
ResultVals(n) ==
    {JStr(S_hi), JNum(5), JNull}
    \cup {JDict(f) :
            f \in DictsOver(<<K_parts, K_message, K_response, K_content>>,
                            (K_parts :> PartsVals) @@ (K_message :> {T("m")})
                            @@ (K_response :> {T("r")}) @@ (K_content :> {T("c")}),
                            n)}

\* values of choices[0].message
ChoiceMessageVals ==
    {JStr(S_hi), JStr(K_content), JNum(5), JNull, JList(<<JStr(K_content)>>),
     JDict(EmptyDict), JDict(K_content :> T("o")), JDict(K_content :> JNum(8))}

\* values of choices[0]
ChoiceVals ==
    {JNum(5), JNull, JStr(S_hi), JStr(K_message), JList(<<>>),
     JList(<<JStr(K_message)>>), JDict(EmptyDict)}
    \cup {JDict(K_message :> m) : m \in ChoiceMessageVals}

ChoicesVals ==
    {JNum(5), JNull, JStr(<<>>), JStr(K_message), JList(<<>>), JDict(EmptyDict),
     JDict(K_other :> T("q"))}
    \cup {JList(<<c>>) : c \in ChoiceVals}

TopKeys == <<K_jsonrpc, K_result, K_error, K_message, K_response, K_content,
             K_data, K_choices, K_other>>

TopVals(n) ==
    (K_jsonrpc :> {JStr(S_v20)})
    @@ (K_result :> ResultVals(n))
    @@ (K_error :> {JDict(K_message :> T("e")), JNull})
    @@ (K_message :> {T("M"), JNull})
    @@ (K_response :> {T("R")})
    @@ (K_content :> {T("C")})
    @@ (K_data :> {JDict(K_message :> T("d")), JDict(K_other :> T("q")), T("d")})
    @@ (K_choices :> ChoicesVals)
    @@ (K_other :> {JStr(S_hi)})

\* the reply bodies explored: objects of at most n keys, and other values
Bodies(n) ==
    {JDict(f) : f \in DictsOver(TopKeys, TopVals(n), n)}
    \cup {JStr(S_hi), JNum(5), JNull, JList(<<>>), JList(<<JStr(S_hi)>>)}

InitNorm ==
    /\ config = MkConfig("direct", PyNone, DefaultTimeout, DefaultRetries)
    /\ session = "none"
    /\ pc = "new"
    /\ headers = NoHeaders
    /\ payload = NoPayload
    /\ attempt = 0
    /\ last_error = PyNone
    /\ response = PyNone
    /\ exc = PyNone
    /\ trace = <<>>
    /\ uuids = 0
    /\ body \in Bodies(MaxKeys)
    /\ out = NotCalled
    /\ NoBatch
    /\ NoManager

\* a call of _extract_message_from_response(body)
Extract ==
    /\ out = NotCalled
    /\ out' = extract_message_from_response(body)
    /\ UNCHANGED <<clientvars, body, batchvars, mgrvars>>

NextNorm == Extract

SpecNorm == InitNorm /\ [][NextNorm]_vars

(***************************************************************************)
(* The batch drivers: Agent2AgentWorkflow (main.py) and                    *)
(* test_all_custom_agents (custom_agent_client.py).                        *)
(***************************************************************************)
\* main.py lines 207-216: the agents made of the loaded configs
RECURSIVE WrapAgents(_)
WrapAgents(agent_configs) ==
    IF agent_configs = <<>> THEN <<>>
    ELSE LET cfg == Head(agent_configs)
         IN  (IF cfg.agent_type = S_custom THEN <<CustomCloudAgent(cfg)>>
              ELSE IF cfg.agent_type = S_builtin
                   THEN <<CloudAgent(cfg.platform, cfg.name, cfg.favorite_color)>>
                   ELSE <<>>)
             \o WrapAgents(Tail(agent_configs))

\* Agent2AgentWorkflow._create_agents
create_agents(env) ==
    IF should_use_custom_agents(env) THEN WrapAgents(load_custom_agents(env)) ELSE <<>>

\* the client variables while no client exists
NoClient ==
    /\ config = CustomAgentConfig(<<>>, <<>>, PyNone, PyNone, <<>>, 0, 0, <<>>)
    /\ session = "none"
    /\ pc = "idle"
    /\ headers = NoHeaders
    /\ payload = NoPayload
    /\ attempt = 0
    /\ last_error = PyNone
    /\ response = PyNone
    /\ exc = PyNone
    /\ trace = <<>>
    /\ uuids = 0
    /\ body = JNull
    /\ out = NotCalled

\* custom_agent_client.py line 299: agents = load_custom_agents();
\* main.py line 177: self.agents = self._create_agents()
Load ==
    /\ dpc = "start"
    /\ agents' = IF driver = "workflow" THEN create_agents(environ)
                 ELSE load_custom_agents(environ)
    /\ idx' = 1
    /\ dpc' = "loop"
    /\ UNCHANGED <<clientvars, normvars, mgrvars, environ, driver, all_responses,
                   workflow_history, results, calls>>

(***************************************************************************)
(* The environments of a batch run: the slots 1..m of AWS_AGENT_ are set,  *)
(* each to a custom agent "a", a custom agent "b" or a builtin agent "a".  *)
(***************************************************************************)
BatchSlotChoices(num) ==
    {SlotVars(platforms[1].prefix, num, JStr(S_a), JStr(S_url), PyNone, JStr(S_Red), PyNone),
     SlotVars(platforms[1].prefix, num, JStr(S_b), JStr(S_url), JStr(S_NONE), JStr(S_Red),
              JStr(<<"C","u","s","t","o","m">>)),
     SlotVars(platforms[1].prefix, num, JStr(S_a), PyNone, PyNone, JStr(S_Red), JStr(<<"B","U","I","L","T","I","N">>))}

RECURSIVE FullEnvs(_)
FullEnvs(n) ==
    IF n = 0 THEN {EmptyDict}
    ELSE {c @@ e : c \in BatchSlotChoices(n), e \in FullEnvs(n - 1)}

BatchEnvs(n) ==
    {e @@ (K_USE :> S_true) @@ (K_RETRIES :> r) :
        e \in UNION {FullEnvs(m) : m \in 0..n}, r \in {<<"1">>, <<"2">>}}

\* what the chat completion of a builtin agent comes to: a text, or an exception
BuiltinOutcomes == {Ret(S_hi), Raise(S_err)}

\* the entries of calls; posted holds the envelopes the call has posted
StartEvent(k, client) ==
    [ev |-> "start", agent |-> k, client |-> client, failed |-> FALSE,
     session |-> "none", posted |-> <<>>]
EndEvent(k, client, failed, s, posted) ==
    [ev |-> "end", agent |-> k, client |-> client, failed |-> failed,
     session |-> s, posted |-> posted]

\* the next agent is called while the call of the last one is under way
DriverIdleOrCalling(d) == d \in {"loop", "calling"}

\* the for loops of main.py line 232 and custom_agent_client.py line 302 await
\* each call: the body runs for the next agent when the last call is over
DriverIdle(d) == d = "loop"

\* the call of a driver returns when the with statement has been left
CallFinished(p) == p = "exited"

\* main.py lines 251 and 44, custom_agent_client.py lines 304 and 287:
\* the call for agents[idx] begins and makes the client of its config
CallAgent ==
    /\ driver \in {"workflow", "test_all"}
    /\ DriverIdle(dpc)
    /\ idx <= Len(agents)
    /\ (driver = "workflow" => agents[idx].class = "CustomCloudAgent")
    /\ config' = IF driver = "workflow" THEN agents[idx].config ELSE agents[idx]
    /\ session' = "none"
    /\ pc' = "new"
    /\ headers' = NoHeaders
    /\ payload' = NoPayload
    /\ attempt' = 0
    /\ last_error' = PyNone
    /\ response' = PyNone
    /\ exc' = PyNone
    /\ trace' = <<>>
    /\ dpc' = "calling"
    /\ calls' = Append(calls, StartEvent(idx, TRUE))
    /\ UNCHANGED <<uuids, normvars, mgrvars, environ, driver, agents, idx, all_responses,
                   workflow_history, results>>

\* main.py lines 250-271 for a CloudAgent: process_task (lines 122-170)
\* returns the text of the chat completion, or raises
CallBuiltin ==
    /\ driver = "workflow"
    /\ DriverIdle(dpc)
    /\ idx <= Len(agents)
    /\ agents[idx].class = "CloudAgent"
    /\ \E r \in BuiltinOutcomes :
         IF r.st = "return"
         THEN /\ all_responses' = Append(all_responses, AgentResponse(agents[idx], r.val))
              /\ workflow_history' = Append(workflow_history,
                                            AgentResponse(agents[idx], r.val))
              /\ calls' = calls \o <<StartEvent(idx, FALSE),
                                     EndEvent(idx, FALSE, FALSE, "none", <<>>)>>
         ELSE /\ all_responses' =
                    Append(all_responses,
                           AgentResponse(agents[idx],
                                         error_response_message(agents[idx], r.val)))
              /\ workflow_history' = workflow_history
              /\ calls' = calls \o <<StartEvent(idx, FALSE),
                                     EndEvent(idx, FALSE, TRUE, "none", <<>>)>>
    /\ idx' = idx + 1
    /\ UNCHANGED <<clientvars, normvars, mgrvars, environ, driver, dpc, agents, results>>

\* main.py lines 64-102 and 252-253, custom_agent_client.py lines 292-295
\* and 305: the call returns and its result is recorded
RecordResult ==
    /\ dpc = "calling"
    /\ CallFinished(pc)
    /\ IF driver = "workflow"
       THEN LET r == process_task_result(agents[idx],
                                         sub_task(MainTask, agents[idx]), response, exc)
            IN  /\ all_responses' = Append(all_responses, r)
                /\ workflow_history' = Append(workflow_history, r)
                /\ results' = results
       ELSE /\ results' = (SummaryKey(agents[idx])
                              :> test_custom_agent_connection_result(response, exc))
                          @@ results
            /\ UNCHANGED <<all_responses, workflow_history>>
    /\ calls' = Append(calls,
                        EndEvent(idx, TRUE, exc # PyNone \/ ~response.success, session,
                                 LET posts == SelectSeq(trace, LAMBDA e : e.ev = "post")
                                 IN  [i \in 1..Len(posts) |-> posts[i].p]))
    /\ idx' = idx + 1
    /\ dpc' = "loop"
    /\ config' = CustomAgentConfig(<<>>, <<>>, PyNone, PyNone, <<>>, 0, 0, <<>>)
    /\ session' = "none"
    /\ pc' = "idle"
    /\ headers' = NoHeaders
    /\ payload' = NoPayload
    /\ attempt' = 0
    /\ last_error' = PyNone
    /\ response' = PyNone
    /\ exc' = PyNone
    /\ trace' = <<>>
    /\ UNCHANGED <<uuids, normvars, mgrvars, environ, driver, agents>>

\* main.py line 276: return all_responses; custom_agent_client.py line 308:
\* return results
ReturnResults ==
    /\ driver \in {"workflow", "test_all"}
    /\ dpc = "loop"
    /\ idx > Len(agents)
    /\ dpc' = "done"
    /\ UNCHANGED <<clientvars, normvars, mgrvars, environ, driver, agents, idx, all_responses,
                   workflow_history, results, calls>>

InitBatch ==
    /\ NoClient
    /\ environ \in BatchEnvs(MaxAgents)
    /\ driver \in {"workflow", "test_all"}
    /\ dpc = "start"
    /\ agents = <<>>
    /\ idx = 0
    /\ all_responses = <<>>
    /\ workflow_history = <<>>
    /\ results = EmptyDict
    /\ calls = <<>>
    /\ NoManager

NextBatch ==
    \/ Load
    \/ CallAgent
    \/ aenter
    \/ send_message
    \/ Attempt
    \/ ReturnFailure
    \/ aexit
    \/ CallBuiltin
    \/ RecordResult
    \/ ReturnResults

SpecBatch == InitBatch /\ [][NextBatch]_vars

\* a run of load_custom_agents alone (custom_agent_client.py line 312)
InitLoad ==
    /\ NoClient
    /\ environ \in Envs(MaxSlots)
    /\ driver = "load"
    /\ dpc = "start"
    /\ agents = <<>>
    /\ idx = 0
    /\ all_responses = <<>>
    /\ workflow_history = <<>>
    /\ results = EmptyDict
    /\ calls = <<>>
    /\ NoManager

NextLoad == Load

SpecLoad == InitLoad /\ [][NextLoad]_vars

(***************************************************************************)
(* CustomAgentConfigManager (config_manager.py).  It writes the file       *)
(* custom_agents.env with dotenv.set_key and reads the process environment *)
(* with os.getenv; the file reaches the environment by load_dotenv only.   *)
(***************************************************************************)
\* dotenv.set_key(path, key, value): the line of key in the file is replaced
\* or added; os.environ is left alone
set_key(file, key, value) == (key :> value) @@ file

\* dotenv.load_dotenv(path), override=False: the variables of the file that
\* the environment does not have yet are set in it
load_dotenv(env, file) == env @@ file

\* config_manager.py lines 59-65: the first agent_num from n on whose NAME
\* variable is unset or empty in the environment
RECURSIVE NextSlot(_, _, _)
NextSlot(env, platform_prefix, n) ==
    IF Truthy(getenv(env, platform_prefix \o IntStr(n) \o K_NAME))
    THEN NextSlot(env, platform_prefix, n + 1)
    ELSE n

\* config_manager.py lines 58 and 67-75: the file after add_custom_agent
add_custom_agent_file(env, file, a) ==
    LET platform_prefix == Upper(a.platform) \o <<"_","A","G","E","N","T","_">>
        slot == platform_prefix \o IntStr(NextSlot(env, platform_prefix, 1))
        api_key == IF \/ ~a.authenticated
                      \/ a.api_key = <<>>
                      \/ Upper(a.api_key) \in {S_NONE, S_NULL, <<>>}
                   THEN S_NONE
                   ELSE a.api_key
    IN  set_key(set_key(set_key(set_key(file, slot \o K_NAME, a.name),
                                slot \o K_ENDPOINT, a.endpoint),
                        slot \o K_API_KEY, api_key),
                slot \o K_COLOR, a.favorite_color)

\* what the menu entries 4 and 5 (config_manager.py lines 252-275) pass to
\* add_custom_agent: every field is a stripped text that is not empty.  The
\* agents explored: a with the key sk, b without a key, on each platform of
\* the prompt, and a with a placeholder endpoint on AWS.
AddChoices ==
    {[platform |-> pf, name |-> k[1], endpoint |-> S_url, api_key |-> k[2],
      favorite_color |-> S_Red, authenticated |-> k[3]] :
        pf \in {<<"A","W","S">>, <<"A","z","u","r","e">>, <<"G","C","P">>,
                <<"M","u","l","t","i","-","C","l","o","u","d">>},
        k \in {<<S_a, S_sk, TRUE>>, <<S_b, S_NONE, FALSE>>}}
    \cup {[platform |-> <<"A","W","S">>, name |-> S_a, endpoint |-> S_urlYour,
           api_key |-> S_sk, favorite_color |-> S_Red, authenticated |-> TRUE]}

\* the entry of added for the call add_custom_agent(a) made in process p
AddEvent(a, p, platform_prefix, slot) ==
    [platform |-> a.platform, name |-> a.name, endpoint |-> a.endpoint,
     api_key |-> a.api_key, favorite_color |-> a.favorite_color,
     authenticated |-> a.authenticated, proc |-> p,
     prefix |-> platform_prefix, slot |-> slot]

\* CustomAgentConfigManager.enable_custom_agents
enable_custom_agents ==
    /\ driver = "manage"
    /\ config_file' = set_key(config_file, K_USE, S_true)
    /\ last_toggle' = "enable"
    /\ mop' = "enable"
    /\ UNCHANGED <<clientvars, normvars, batchvars, use_custom, added, proc>>

\* CustomAgentConfigManager.disable_custom_agents
disable_custom_agents ==
    /\ driver = "manage"
    /\ config_file' = set_key(config_file, K_USE, <<"f","a","l","s","e">>)
    /\ last_toggle' = "disable"
    /\ mop' = "disable"
    /\ UNCHANGED <<clientvars, normvars, batchvars, use_custom, added, proc>>

\* CustomAgentConfigManager.add_custom_agent, called from the menu
add_custom_agent ==
    /\ driver = "manage"
    /\ Len(added) < MaxAdds
    /\ \E a \in AddChoices :
         LET platform_prefix == Upper(a.platform) \o <<"_","A","G","E","N","T","_">>
         IN  /\ config_file' = add_custom_agent_file(environ, config_file, a)
             /\ added' = Append(added,
                                AddEvent(a, proc, platform_prefix,
                                         NextSlot(environ, platform_prefix, 1)))
    /\ mop' = "add"
    /\ UNCHANGED <<clientvars, normvars, batchvars, last_toggle, use_custom, proc>>

\* CustomAgentConfigLoader.should_use_custom_agents, lines 280-281
call_should_use_custom_agents ==
    /\ driver = "manage"
    /\ environ' = load_dotenv(environ, config_file)
    /\ use_custom' = should_use_custom_agents(environ')
    /\ mop' = "should_use"
    /\ UNCHANGED <<clientvars, normvars, driver, dpc, agents, idx, all_responses,
                   workflow_history, results, calls>>
    /\ UNCHANGED <<config_file, last_toggle, added, proc>>

\* CustomAgentConfigLoader.load_custom_agents, lines 207-275
call_load_custom_agents ==
    /\ driver = "manage"
    /\ environ' = load_dotenv(environ, config_file)
    /\ agents' = load_custom_agents(environ')
    /\ mop' = "load"
    /\ UNCHANGED <<clientvars, normvars, driver, dpc, idx, all_responses,
                   workflow_history, results, calls>>
    /\ UNCHANGED <<config_file, last_toggle, use_custom, added, proc>>

\* CustomAgentConfigManager.list_agents, lines 82-90
list_agents ==
    /\ driver = "manage"
    /\ environ' = load_dotenv(environ, config_file)
    /\ use_custom' = should_use_custom_agents(environ')
    /\ agents' = IF use_custom' THEN load_custom_agents(environ') ELSE agents
    /\ mop' = "list"
    /\ UNCHANGED <<clientvars, normvars, driver, dpc, idx, all_responses,
                   workflow_history, results, calls>>
    /\ UNCHANGED <<config_file, last_toggle, added, proc>>

\* the process ends and another one is started: the file stays, the
\* environment is again the one the shell gives
restart ==
    /\ driver = "manage"
    /\ proc < MaxProcs
    /\ proc' = proc + 1
    /\ environ' = EmptyDict
    /\ agents' = <<>>
    /\ last_toggle' = "none"
    /\ use_custom' = FALSE
    /\ mop' = "restart"
    /\ UNCHANGED <<clientvars, normvars, driver, dpc, idx, all_responses,
                   workflow_history, results, calls>>
    /\ UNCHANGED <<config_file, added>>

\* the manager starts with a file that is empty, that enables the agents, or
\* that holds one AWS agent; the shell sets none of the variables
InitManage ==
    /\ NoClient
    /\ environ = EmptyDict
    /\ driver = "manage"
    /\ dpc = "idle"
    /\ agents = <<>>
    /\ idx = 0
    /\ all_responses = <<>>
    /\ workflow_history = <<>>
    /\ results = EmptyDict
    /\ calls = <<>>
    /\ config_file \in
          {EmptyDict, (K_USE :> S_true),
           SlotVars(platforms[1].prefix, 1, JStr(S_b), JStr(S_url), JStr(S_NONE),
                    JStr(S_Red), PyNone)}
    /\ mop = "none"
    /\ last_toggle = "none"
    /\ use_custom = FALSE
    /\ added = <<>>
    /\ proc = 1

NextManage ==
    \/ enable_custom_agents
    \/ disable_custom_agents
    \/ add_custom_agent
    \/ call_should_use_custom_agents
    \/ call_load_custom_agents
    \/ list_agents
    \/ restart

SpecManage == InitManage /\ [][NextManage]_vars

(***************************************************************************)
(* Properties of send_message and of the client scope, checked under Spec. *)
(***************************************************************************)
Posts == SelectSeq(trace, LAMBDA e : e.ev = "post")
Sleeps == SelectSeq(trace, LAMBDA e : e.ev = "sleep")

RECURSIVE SumN(_)
SumN(events) == IF events = <<>> THEN 0 ELSE Head(events).n + SumN(Tail(events))

\* the time slept so far
TotalSlept == SumN(Sleeps)

\* the reply of a post has a status in the 2xx range
Got2xx(e) == e.o.kind = "http" /\ e.o.status >= 200 /\ e.o.status <= 299

\* send_message has returned to its caller
Returned == response # PyNone

\* how the diagnostic of each failure class begins
ClassPrefix(o) ==
    CASE o.kind = "http"         -> S_HTTP \o IntStr(o.status) \o S_colon
      [] o.kind = "timeout"      -> S_Timeout1
      [] o.kind = "client_error" -> S_Client
      [] OTHER                   -> S_Unexpected

\* C1: every call of send_message made by the callers of the repository ends
\* by returning a CustomAgentResponse, whatever the config and the outcome of
\* each attempt: no exception leaves send_message, the retry loop never runs
\* past its budget, and a call that can make no further attempt can return.
C1_NoExceptionLeavesSendMessage ==
    /\ pc # "raised"
    /\ (pc = "returned" =>
          /\ Returned
          /\ response.success \in BOOLEAN
          /\ response.agent_name = config.name
          /\ response.cloud_platform = config.platform)
    /\ (pc = "loop" =>
          /\ attempt <= (IF config.retries > 0 THEN config.retries ELSE 0)
          /\ (ENABLED Attempt \/ ENABLED ReturnFailure))

\* a call whose attempts ended in a timeout, a client error, an unexpected
\* fault and a bad body has returned a failure response
C1_Witness ==
    /\ pc = "returned"
    /\ ~response.success
    /\ \E i, j, k \in 1..Len(Posts) :
          /\ Posts[i].o.kind = "unexpected"
          /\ Posts[j].o.kind = "timeout"
          /\ Posts[k].o.kind = "http" /\ Posts[k].o.parse = "decode"

\* C2: when send_message has returned and no attempt got a 2xx status, it
\* made exactly config.retries posts (for retries >= 0; no call makes a
\* negative number of them) and the response has success = false; when there
\* was a last attempt (retries >= 1), error_message is the diagnostic of the
\* failure class of that attempt, not of an earlier one.
C2_ExhaustedReportsFinalAttempt ==
    (Returned /\ config.retries >= 0 /\ \A k \in 1..Len(Posts) : ~Got2xx(Posts[k]))
    => /\ Len(Posts) = config.retries
       /\ ~response.success
       /\ (config.retries >= 1 =>
             /\ response.error_message # PyNone
             /\ StartsWith(response.error_message.v, ClassPrefix(Posts[Len(Posts)].o)))

\* a failed call whose first and last attempts failed in different classes
C2_Witness ==
    /\ Returned
    /\ config.retries >= 2
    /\ \A k \in 1..Len(Posts) : ~Got2xx(Posts[k])
    /\ Len(Posts) = config.retries
    /\ Posts[1].o.kind = "timeout"
    /\ Posts[Len(Posts)].o.kind = "http" /\ Posts[Len(Posts)].o.status = 500

\* C3, as claimed: when attempt N is answered HTTP 200 and every earlier
\* attempt by a status outside 2xx, the call returns success = true after
\* exactly N attempts, having slept 2^0 + ... + 2^(N-2) = 2^(N-1) - 1.
C3_SuccessOnNthAttempt ==
    \A n \in 1..Len(Posts) :
        (/\ Returned
         /\ Posts[n].o.kind = "http" /\ Posts[n].o.status = 200
         /\ \A j \in 1..(n - 1) : Posts[j].o.kind = "http" /\ ~Got2xx(Posts[j]))
        => /\ response.success
           /\ Len(Posts) = n
           /\ TotalSlept = 2 ^ (n - 1) - 1

\* C4: a sleep follows a post of the same attempt i, lasts 2^i, is never the
\* sleep of the last attempt (i < retries - 1), is followed by nothing but
\* the post of attempt i + 1, and is never the last event of a call that
\* has returned, so that none follows a successful or a final attempt.
C4_BackoffOnlyBetweenAttempts ==
    /\ \A k \in 1..Len(trace) :
          trace[k].ev = "sleep" =>
             /\ k > 1
             /\ trace[k - 1].ev = "post"
             /\ trace[k - 1].i = trace[k].i
             /\ AttemptResult(trace[k - 1].o, config).st # "success"
             /\ trace[k].n = 2 ^ trace[k].i
             /\ trace[k].i < config.retries - 1
             /\ (k < Len(trace) =>
                    trace[k + 1].ev = "post" /\ trace[k + 1].i = trace[k].i + 1)
    /\ (Returned /\ trace # <<>> => trace[Len(trace)].ev = "post")

\* a call that slept 1 and then 2 and has returned after its last attempt
C4_Witness ==
    /\ Returned
    /\ Len(Sleeps) >= 2
    /\ Sleeps[1].n = 1 /\ Sleeps[2].n = 2
    /\ Len(Posts) = config.retries

\* C5, as claimed: a post answered by any status of 200..299 with a body
\* that parses (and that the normalizer turns into a text) is the last post
\* of the call: no further attempt is made, and the call returns
\* success = true with the normalized text as its message.
C5_Any2xxEndsTheCall ==
    \A k \in 1..Len(Posts) :
        (/\ Got2xx(Posts[k])
         /\ Posts[k].o.parse = "ok"
         /\ extract_message_from_response(Posts[k].o.body).st = "return")
        => /\ k = Len(Posts)
           /\ pc # "loop"
           /\ (Returned => /\ response.success
                           /\ response.message = extract_message_from_response(Posts[k].o.body).val)

\* C6, as claimed: the headers of every post hold Authorization exactly when
\* api_key is present and none of "", "NONE", "NULL", and then its value is
\* "Bearer " followed by api_key.
C6_AuthorizationIffCredential ==
    \A k \in 1..Len(Posts) :
        LET h == Posts[k].h
            credential == /\ config.api_key # PyNone
                          /\ config.api_key.v \notin {<<>>, S_NONE, S_NULL}
        IN  /\ ("Authorization" \in DOMAIN h) <=> credential
            /\ ("Authorization" \in DOMAIN h => h.Authorization = S_Bearer \o config.api_key.v)

\* C7, as claimed: in every response returned, error_message is non-null
\* exactly when success is false.
C7_ErrorMessageIffFailure ==
    Returned => ((response.error_message # PyNone) <=> ~response.success)

\* C8: once the scope of a client has been left, by a return after success,
\* by a return after failure or by an exception, its session is closed; a
\* session is open only inside the scope.
C8_SessionClosedOnEveryExit ==
    /\ (pc = "exited" => session = "closed")
    /\ (session = "open" => pc \in {"entered", "loop", "returned", "raised", "faulted"})

\* the scope was left by an exception raised after send_message had returned
C8_Witness ==
    /\ pc = "exited"
    /\ exc # PyNone
    /\ Returned
    /\ session = "closed"

(***************************************************************************)
(* Properties of _extract_message_from_response, checked under SpecNorm.   *)
(* The rules of the normalizer are stated on the shape of the body, each   *)
(* with the text it yields; an RPC envelope is an object with the          *)
(* "jsonrpc" version marker.                                               *)
(***************************************************************************)
IsEnvelope(b) == IsDict(b) /\ K_jsonrpc \in DOMAIN b.v

HasResultDict(b) ==
    IsEnvelope(b) /\ K_result \in DOMAIN b.v /\ IsDict(b.v[K_result])

\* the first of the keys message, response, content that d has
FirstTextKey(d) ==
    IF K_message \in DOMAIN d THEN K_message
    ELSE IF K_response \in DOMAIN d THEN K_response
    ELSE K_content

HasTextKey(d) == DOMAIN d \cap {K_message, K_response, K_content} # {}

\* rule 1: a result object with a list of parts whose first part has a text
Rule1(b) ==
    /\ HasResultDict(b)
    /\ K_parts \in DOMAIN b.v[K_result].v
    /\ IsList(b.v[K_result].v[K_parts])
    /\ Len(b.v[K_result].v[K_parts].v) > 0
    /\ IsDict(b.v[K_result].v[K_parts].v[1])
    /\ K_text \in DOMAIN b.v[K_result].v[K_parts].v[1].v
Text1(b) == PyStr(b.v[K_result].v[K_parts].v[1].v[K_text])

\* rule 2: a result object with message, response or content
Rule2(b) == HasResultDict(b) /\ HasTextKey(b.v[K_result].v)
Text2(b) == PyStr(b.v[K_result].v[FirstTextKey(b.v[K_result].v)])

\* rule 3: a result that is a plain string
Rule3(b) == IsEnvelope(b) /\ K_result \in DOMAIN b.v /\ IsStr(b.v[K_result])
Text3(b) == b.v[K_result].v

\* rule 4: an envelope that carries an error
Rule4(b) == IsEnvelope(b) /\ K_error \in DOMAIN b.v
Text4(b) == S_AgentErr \o PyStr(b.v[K_error])

\* rule 5: a flat object with message, response or content
Rule5(b) == IsDict(b) /\ HasTextKey(b.v)
Text5(b) == PyStr(b.v[FirstTextKey(b.v)])

\* rule 5a: data.message
Rule5a(b) ==
    /\ IsDict(b) /\ K_data \in DOMAIN b.v /\ IsDict(b.v[K_data])
    /\ K_message \in DOMAIN b.v[K_data].v
Text5a(b) == PyStr(b.v[K_data].v[K_message])

\* rule 6: a choices list whose first element has message.content
Rule6(b) ==
    /\ IsDict(b) /\ K_choices \in DOMAIN b.v /\ IsList(b.v[K_choices])
    /\ Len(b.v[K_choices].v) > 0
    /\ IsDict(b.v[K_choices].v[1])
    /\ K_message \in DOMAIN b.v[K_choices].v[1].v
    /\ IsDict(b.v[K_choices].v[1].v[K_message])
    /\ K_content \in DOMAIN b.v[K_choices].v[1].v[K_message].v
Text6(b) == PyStr(b.v[K_choices].v[1].v[K_message].v[K_content])

\* the text of the lowest-numbered rule that applies; rule 7 is the fallback
LowestRuleText(b) ==
    CASE Rule1(b)  -> Text1(b)
      [] ~Rule1(b) /\ Rule2(b) -> Text2(b)
      [] ~Rule1(b) /\ ~Rule2(b) /\ Rule3(b) -> Text3(b)
      [] ~Rule1(b) /\ ~Rule2(b) /\ ~Rule3(b) /\ Rule4(b) -> Text4(b)
      [] ~Rule1(b) /\ ~Rule2(b) /\ ~Rule3(b) /\ ~Rule4(b) /\ Rule5(b) -> Text5(b)
      [] ~Rule1(b) /\ ~Rule2(b) /\ ~Rule3(b) /\ ~Rule4(b) /\ ~Rule5(b) /\ Rule5a(b)
            -> Text5a(b)
      [] ~Rule1(b) /\ ~Rule2(b) /\ ~Rule3(b) /\ ~Rule4(b) /\ ~Rule5(b) /\ ~Rule5a(b)
         /\ Rule6(b) -> Text6(b)
      [] OTHER -> PyStr(b)

Called == out # NotCalled

\* C9, as claimed: for every body the call returns a str and never raises.
C9_NormalizerIsTotal == Called => out.st = "return"

\* C10, as claimed: for every body the call returns the text of the
\* lowest-numbered rule that applies, the stringified body only when no
\* other rule applies.
C10_LowestRuleWins == Called => (out.st = "return" /\ out.val = LowestRuleText(body))

\* the part of C10 that the code keeps: whenever the call returns, it returns
\* the text of the lowest-numbered rule that applies
C10_LowestRuleWinsWhenReturning ==
    (Called /\ out.st = "return") => out.val = LowestRuleText(body)

\* a body that satisfies rule 1 and rule 5 has come to the text of rule 1
C10_PrecedenceReached ==
    Called /\ Rule1(body) /\ Rule5(body) /\ out.st = "return" /\ out.val = Text1(body)
    /\ Text1(body) # Text5(body)


(***************************************************************************)
(* Properties of the RPC error reply, checked under Spec.                  *)
(***************************************************************************)
\* an RPC envelope that carries an error object and no result
IsRpcError(b) == IsEnvelope(b) /\ K_error \in DOMAIN b.v /\ K_result \notin DOMAIN b.v

\* the post k was the last event of the call, which went on to return
\* success with the error object embedded in its message
EndsCallWithAgentError(k) ==
    /\ k = Len(Posts)
    /\ trace[Len(trace)].ev = "post"
    /\ pc # "loop"
    /\ (Returned => /\ response.success
                    /\ response.error_message = PyNone
                    /\ response.message = S_AgentErr \o PyStr(Posts[k].o.body.v[K_error]))

\* C11, as claimed: a post answered by a status of 200..299 with a body that
\* is an RPC envelope carrying an error object instead of a result is the
\* last event of the call (no retry, no sleep), and the call returns
\* success = true with a message that embeds the error object.
C11_RpcErrorIsTerminalSuccess ==
    \A k \in 1..Len(Posts) :
        (Got2xx(Posts[k]) /\ Posts[k].o.parse = "ok" /\ IsRpcError(Posts[k].o.body))
        => EndsCallWithAgentError(k)

\* the part of C11 that the code keeps: the same for a reply of status 200
C11_RpcErrorAt200IsTerminalSuccess ==
    \A k \in 1..Len(Posts) :
        (/\ Posts[k].o.kind = "http" /\ Posts[k].o.status = 200
         /\ Posts[k].o.parse = "ok" /\ IsRpcError(Posts[k].o.body))
        => EndsCallWithAgentError(k)

\* a call has returned on an RPC error reply to its second attempt
C11_RpcErrorAt200Reached ==
    /\ Returned
    /\ Len(Posts) = 2
    /\ Posts[2].o.status = 200 /\ IsRpcError(Posts[2].o.body)
    /\ response.success

(***************************************************************************)
(* Properties of the batch drivers, checked under SpecBatch.               *)
(***************************************************************************)
Starts == SelectSeq(calls, LAMBDA e : e.ev = "start")
Ends == SelectSeq(calls, LAMBDA e : e.ev = "end")

InBatch == driver \in {"workflow", "test_all"} /\ dpc \in {"loop", "calling", "done"}

\* the identity and the kind of the k-th agent of the batch
AgentName(k) == IF driver = "workflow" THEN agents[k].agent_name ELSE agents[k].name
AgentPlatform(k) ==
    IF driver = "workflow" THEN agents[k].cloud_platform ELSE agents[k].platform
AgentType(k) ==
    IF driver = "test_all" THEN agents[k].agent_type
    ELSE IF agents[k].class = "CustomCloudAgent" THEN agents[k].config.agent_type
    ELSE S_builtin

\* the calls begun so far are those of agents 1, 2, ... in this order, each
\* once, and so are the calls ended; when the run is over every agent had its
\* call; an agent that is due can be called whatever came of the earlier ones
VisitsInOrder ==
    /\ \A j \in 1..Len(Starts) : Starts[j].agent = j
    /\ \A j \in 1..Len(Ends) : Ends[j].agent = j
    /\ Len(Starts) <= Len(agents)
    /\ (dpc = "done" => Len(Ends) = Len(agents))
    /\ (dpc = "loop" /\ idx <= Len(agents) => ENABLED (CallAgent \/ CallBuiltin))

\* all_responses holds the result of each ended call, in the order of the agents
WorkflowResultsInOrder ==
    /\ Len(all_responses) = Len(Ends)
    /\ \A j \in 1..Len(all_responses) :
          /\ all_responses[j].agent_name = AgentName(j)
          /\ all_responses[j].cloud_platform = AgentPlatform(j)

\* results holds one entry for each ended call
SummaryHasEntryPerCall ==
    /\ Cardinality(DOMAIN results) = Len(Ends)
    /\ \A j \in 1..Len(Ends) : SummaryKey(agents[j]) \in DOMAIN results

\* C12, as claimed: a batch run calls every agent exactly once, in input
\* order, whatever the earlier calls came to, and holds one result per agent
\* called, in that order: all_responses for execute_workflow, results for
\* test_all_custom_agents.
C12_EveryAgentOnceInOrder ==
    InBatch => /\ VisitsInOrder
               /\ (driver = "workflow" => WorkflowResultsInOrder)
               /\ (driver = "test_all" => SummaryHasEntryPerCall)

\* the part of C12 that the code keeps: the visits of both drivers and the
\* results of execute_workflow
C12_VisitsAndWorkflowResults ==
    InBatch => /\ VisitsInOrder
               /\ (driver = "workflow" => WorkflowResultsInOrder)

\* a workflow of three agents is over: the first call failed, the builtin
\* backend of the second raised, the third call succeeded
C12_ContinuationReached ==
    /\ driver = "workflow" /\ dpc = "done"
    /\ Len(agents) = 3 /\ Len(all_responses) = 3
    /\ Ends[1].failed /\ Ends[1].client
    /\ Ends[2].failed /\ ~Ends[2].client
    /\ ~Ends[3].failed

\* the messages of the responses a call of cfg's agent returns with success
SuccessMessages(cfg) ==
    {AttemptResult(o, cfg).val :
        o \in {x \in PostOutcomes(driver, cfg) : AttemptResult(x, cfg).st = "success"}}

\* the results execute_workflow records for a call of agent that succeeded
SuccessResults(agent) ==
    IF agent.class = "CustomCloudAgent"
    THEN {AgentResponse(agent, m) : m \in SuccessMessages(agent.config)}
    ELSE {AgentResponse(agent, r.val) : r \in {x \in BuiltinOutcomes : x.st = "return"}}

\* C13, as claimed: for every call of a batch that failed (send_message
\* returned success = false, or the builtin backend raised), the result in
\* that agent's slot carries the agent's platform and name and is marked as a
\* failure: in all_responses it is none of the results a successful call of
\* that agent gives, in the summary it is False under the agent's key.
C13_FailedSlotMarkedFailure ==
    InBatch =>
      \A j \in 1..Len(Ends) :
         Ends[j].failed =>
            IF driver = "workflow"
            THEN /\ all_responses[j].agent_name = AgentName(j)
                 /\ all_responses[j].cloud_platform = AgentPlatform(j)
                 /\ all_responses[j] \notin SuccessResults(agents[j])
            ELSE /\ SummaryKey(agents[j]) \in DOMAIN results
                 /\ results[SummaryKey(agents[j])] = FALSE

\* the part of C13 that the code keeps: the slot of a failed call carries
\* the agent's platform and name
C13_FailedSlotCarriesIdentity ==
    InBatch =>
      \A j \in 1..Len(Ends) :
         Ends[j].failed =>
            IF driver = "workflow"
            THEN /\ all_responses[j].agent_name = AgentName(j)
                 /\ all_responses[j].cloud_platform = AgentPlatform(j)
            ELSE SummaryKey(agents[j]) \in DOMAIN results

\* C15, as claimed: in both drivers a client is made, a session opened and a
\* POST attempted only for an agent whose agent_type is "custom".
C15_BuiltinNeverReachesClient ==
    InBatch =>
      /\ \A j \in 1..Len(calls) : calls[j].client => AgentType(calls[j].agent) = S_custom
      /\ (session # "none" \/ trace # <<>> => config.agent_type = S_custom)

\* the part of C15 that the code keeps: the same for execute_workflow
C15_WorkflowBuiltinNeverReachesClient ==
    (InBatch /\ driver = "workflow") =>
      /\ \A j \in 1..Len(calls) : calls[j].client => AgentType(calls[j].agent) = S_custom
      /\ (session # "none" \/ trace # <<>> => config.agent_type = S_custom)

\* a workflow has called a builtin agent without a client
C15_WorkflowBuiltinReached ==
    /\ driver = "workflow"
    /\ \E j \in 1..Len(Ends) : ~Ends[j].client /\ AgentType(Ends[j].agent) = S_builtin

\* C16: the calls of a batch follow one another: every call begins after the
\* call of the agent before it has ended, a session, a POST or a sleep
\* belongs to the one call that has begun and not ended, the session of a
\* call that has ended is not open, and so at most one session is open.
C16_OneCallAtATime ==
    InBatch =>
      /\ \A j \in 1..Len(calls) :
            /\ calls[j].ev = (IF j % 2 = 1 THEN "start" ELSE "end")
            /\ calls[j].agent = (j + 1) \div 2
      /\ \A j \in 1..Len(calls) : calls[j].ev = "end" => calls[j].session # "open"
      /\ (pc # "idle" \/ session # "none" \/ trace # <<>>
            => /\ dpc = "calling"
               /\ Len(calls) % 2 = 1
               /\ calls[Len(calls)] = StartEvent(idx, TRUE))
      /\ (dpc # "calling" => pc = "idle")

\* the second call of a batch sleeps between its attempts while its session
\* is open, after a first call that slept too and has ended
C16_Witness ==
    /\ InBatch
    /\ Len(calls) = 3
    /\ calls[2].client /\ calls[2].failed /\ calls[2].session = "closed"
    /\ session = "open"
    /\ Len(Sleeps) = 1 /\ Len(Posts) = 1
    /\ config.retries = 2

\* the key of each agent is in results, and no other key
SummaryKeys == {SummaryKey(agents[k]) : k \in 1..Len(agents)}

\* C20, as claimed: when test_all_custom_agents returns, results has exactly
\* one entry per agent, and the entry under "{platform}-{name}" is the
\* success flag of that agent's own call.
C20_SummaryOneEntryPerAgent ==
    (driver = "test_all" /\ dpc = "done") =>
      /\ Cardinality(DOMAIN results) = Len(agents)
      /\ \A k \in 1..Len(agents) :
            /\ SummaryKey(agents[k]) \in DOMAIN results
            /\ results[SummaryKey(agents[k])] = ~Ends[k].failed

\* the part of C20 that the code keeps: results has the keys of the agents
\* and no other, and each entry is the success flag of the last agent that
\* has the key
C20_SummaryOfLastAgentPerKey ==
    (driver = "test_all" /\ dpc = "done") =>
      /\ DOMAIN results = SummaryKeys
      /\ \A k \in 1..Len(agents) :
            (\A m \in (k + 1)..Len(agents) : SummaryKey(agents[m]) # SummaryKey(agents[k]))
            => results[SummaryKey(agents[k])] = ~Ends[k].failed

\* test_all_custom_agents has returned a summary of two keys for three agents
C20_SummaryReached ==
    /\ driver = "test_all" /\ dpc = "done"
    /\ Len(agents) = 3
    /\ Cardinality(DOMAIN results) = 2

(***************************************************************************)
(* Properties of load_custom_agents, checked under SpecLoad.               *)
(***************************************************************************)
Loaded == driver = "load" /\ dpc = "loop"

\* C14: no config that load_custom_agents returns has agent_type "custom"
\* and an endpoint that is None or "".
C14_NoCustomConfigWithoutEndpoint ==
    Loaded => \A i \in 1..Len(agents) :
                 agents[i].agent_type = S_custom => Truthy(agents[i].endpoint)

\* AWS_AGENT_1_ has a name, a color and the endpoint "": the loader returned
\* no AWS config, and returned a custom config of another prefix
C14_Witness ==
    /\ Loaded
    /\ platforms[1].prefix \o <<"1">> \o K_NAME \in DOMAIN environ
    /\ platforms[1].prefix \o <<"1">> \o K_ENDPOINT \in DOMAIN environ
    /\ environ[platforms[1].prefix \o <<"1">> \o K_ENDPOINT] = <<>>
    /\ platforms[1].prefix \o <<"1">> \o K_TYPE \notin DOMAIN environ
    /\ \A i \in 1..Len(agents) : agents[i].platform # platforms[1].platform_name
    /\ \E i \in 1..Len(agents) : agents[i].agent_type = S_custom

\* C18, as claimed: every config that load_custom_agents returns has a
\* timeout and a retries that are positive, whatever CUSTOM_AGENT_TIMEOUT and
\* CUSTOM_AGENT_RETRIES are set to, and has 30 and 3 when they are unset.
C18_PositiveTimeoutAndRetries ==
    Loaded => \A i \in 1..Len(agents) :
                 /\ agents[i].timeout > 0
                 /\ agents[i].retries > 0
                 /\ (K_TIMEOUT \notin DOMAIN environ => agents[i].timeout = 30)
                 /\ (K_RETRIES \notin DOMAIN environ => agents[i].retries = 3)

\* the part of C18 that the code keeps: the defaults of the unset settings
C18_DefaultsWhenUnset ==
    Loaded => \A i \in 1..Len(agents) :
                 /\ (K_TIMEOUT \notin DOMAIN environ => agents[i].timeout = 30)
                 /\ (K_RETRIES \notin DOMAIN environ => agents[i].retries = 3)

\* configs were loaded with both settings unset
C18_DefaultsReached ==
    /\ Loaded
    /\ Len(agents) >= 2
    /\ K_TIMEOUT \notin DOMAIN environ /\ K_RETRIES \notin DOMAIN environ
    /\ agents[1].timeout = 30 /\ agents[1].retries = 3

(***************************************************************************)
(* Properties of the failure classes of send_message, checked under Spec.  *)
(***************************************************************************)
\* the post ended in one of the four failure classes
FailureClass(e) ==
    \/ e.o.kind \in {"timeout", "client_error", "unexpected"}
    \/ (e.o.kind = "http" /\ ~Got2xx(e))

\* the number of posts among the first k events
RECURSIVE PostsBefore(_)
PostsBefore(k) ==
    IF k = 0 THEN 0
    ELSE PostsBefore(k - 1) + (IF trace[k].ev = "post" THEN 1 ELSE 0)

\* C17: a post that ends in any of the four failure classes is the post of
\* the next attempt of the budget, one attempt for one post; when attempts
\* are left it is followed by the sleep of 2^i and then by nothing but the
\* post of the next attempt, and when it was the last attempt the call
\* returns a failure.  A call whose posts all failed has made retries posts
\* and retries - 1 sleeps, whichever the classes were.
C17_FailureClassesAlike ==
    /\ \A k \in 1..Len(trace) :
          (trace[k].ev = "post" /\ FailureClass(trace[k])) =>
             /\ trace[k].i = PostsBefore(k - 1)
             /\ pc # "raised"
             /\ IF trace[k].i < config.retries - 1
                THEN /\ k < Len(trace)
                     /\ trace[k + 1] = SleepEvent(trace[k].i, 2 ^ trace[k].i)
                     /\ IF k + 1 < Len(trace)
                        THEN trace[k + 2].ev = "post" /\ trace[k + 2].i = trace[k].i + 1
                        ELSE pc = "loop" /\ attempt = trace[k].i + 1
                ELSE /\ k = Len(trace)
                     /\ trace[k].i = config.retries - 1
                     /\ (pc = "loop" => attempt = config.retries)
                     /\ (Returned => ~response.success)
    /\ (Returned /\ \A k \in 1..Len(Posts) : FailureClass(Posts[k]))
          => /\ Len(Posts) = (IF config.retries > 0 THEN config.retries ELSE 0)
             /\ Len(Sleeps) = (IF config.retries > 1 THEN config.retries - 1 ELSE 0)

\* a call of three attempts that ended in three different classes has
\* returned after sleeping 1 and 2
C17_Witness ==
    /\ Returned
    /\ Len(Posts) >= 3
    /\ Posts[1].o.kind = "http" /\ Posts[1].o.status = 404
    /\ Posts[2].o.kind = "client_error"
    /\ Posts[3].o.kind = "timeout"
    /\ Sleeps[1].n = 1 /\ Sleeps[2].n = 2
    /\ Len(Posts) = config.retries

(***************************************************************************)
(* Properties of the priority of message, response and content, checked    *)
(* under SpecNorm.                                                         *)
(***************************************************************************)
\* C19: for a body whose result object has no parts text and has some of
\* message, response, content, the call returns the value of message if
\* present, else of response, else of content; so it does for the keys at
\* the top level of a body to which no rule of the envelope applies.
C19_MessageBeforeResponseBeforeContent ==
    Called =>
      /\ (HasResultDict(body) /\ ~Rule1(body) /\ HasTextKey(body.v[K_result].v)
            => out = Ret(Text2(body)))
      /\ (~Rule1(body) /\ ~Rule2(body) /\ ~Rule3(body) /\ ~Rule4(body) /\ Rule5(body)
            => out = Ret(Text5(body)))

\* a result object with parts that give no text, a message and a response
\* has come to the message
C19_Witness ==
    /\ Called
    /\ HasResultDict(body)
    /\ DOMAIN body.v[K_result].v = {K_parts, K_message, K_response}
    /\ ~Rule1(body)
    /\ out = Ret(<<"m">>)

(***************************************************************************)
(* The envelope of a call, checked under SpecBatch.                        *)
(***************************************************************************)
\* the calls of the batch that have returned after posting something
PostingCalls == {k \in 1..Len(calls) : calls[k].ev = "end" /\ calls[k].posted # <<>>}

\* C21: every attempt of one send_message call posts the envelope and the
\* headers built before the first attempt (message id, text, context and the
\* sender's name, platform and color) to config.endpoint, and the envelopes
\* of two different calls carry different message ids.
C21_SameEnvelopePerCallFreshIdPerCall ==
    /\ \A i \in 1..Len(trace) :
          trace[i].ev = "post" =>
             /\ trace[i].p = payload
             /\ trace[i].h = headers
             /\ trace[i].url = config.endpoint
             /\ \E a \in SendArgs(driver, config) :
                   /\ trace[i].p.text = a.message
                   /\ trace[i].p.context = a.task_context
             /\ trace[i].p.name = config.name
             /\ trace[i].p.platform = config.platform
             /\ trace[i].p.favorite_color = config.favorite_color
    /\ \A k \in PostingCalls :
          /\ \A i \in 1..Len(calls[k].posted) : calls[k].posted[i] = calls[k].posted[1]
          /\ \A i \in 1..Len(trace) :
                trace[i].ev = "post" =>
                   trace[i].p.messageId # calls[k].posted[1].messageId
          /\ \A m \in PostingCalls :
                m # k => calls[m].posted[1].messageId # calls[k].posted[1].messageId

\* a call that posted twice has returned, and a later call has posted
C21_Witness ==
    /\ \E k \in PostingCalls : Len(calls[k].posted) >= 2
    /\ Cardinality(PostingCalls) >= 1
    /\ \E i \in 1..Len(trace) : trace[i].ev = "post"

(***************************************************************************)
(* Replies of status 200 that give no message, checked under Spec.         *)
(***************************************************************************)
\* the reply of post e has status 200 and response.json() rejects its body
Unparsed200(e) ==
    e.o.kind = "http" /\ e.o.status = 200 /\ e.o.parse # "ok"

\* the reply of post e has status 200 and a body the normalizer raises on
Unnormalized200(e) ==
    /\ e.o.kind = "http" /\ e.o.status = 200 /\ e.o.parse = "ok"
    /\ extract_message_from_response(e.o.body).st = "raise"

\* C22: a post answered by 200 with a body that cannot be parsed, or on which
\* the normalizer raises, does not end the call: it uses one attempt, its
\* diagnostic is a client error or an unexpected error, the usual sleep and
\* the next attempt follow when attempts are left, and the call returns
\* success = false when no later attempt succeeds.
C22_Unusable200IsRetried ==
    \A k \in 1..Len(trace) :
       (trace[k].ev = "post" /\ (Unparsed200(trace[k]) \/ Unnormalized200(trace[k]))) =>
          /\ trace[k].i = PostsBefore(k - 1)
          /\ pc # "raised"
          /\ IF trace[k].i < config.retries - 1
             THEN /\ k < Len(trace)
                  /\ trace[k + 1] = SleepEvent(trace[k].i, 2 ^ trace[k].i)
                  /\ IF k + 1 < Len(trace)
                     THEN trace[k + 2].ev = "post" /\ trace[k + 2].i = trace[k].i + 1
                     ELSE pc = "loop" /\ attempt = trace[k].i + 1
             ELSE /\ k = Len(trace)
                  /\ (pc = "loop" => attempt = config.retries)
                  /\ (Returned => ~response.success)
          /\ (\A j \in (k + 1)..Len(trace) : trace[j].ev # "post") =>
                /\ last_error # PyNone
                /\ IF trace[k].o.parse = "content_type"
                   THEN StartsWith(last_error.v, S_Client)
                   ELSE StartsWith(last_error.v, S_Unexpected)
          /\ (Returned /\ \A j \in (k + 1)..Len(trace) :
                            trace[j].ev = "post" =>
                               \/ FailureClass(trace[j])
                               \/ Unparsed200(trace[j])
                               \/ Unnormalized200(trace[j]))
                => /\ ~response.success
                   /\ Len(Posts) = config.retries

\* a call of three attempts has returned a failure after a 200 reply of the
\* wrong content type, a 200 reply that is no JSON and a 200 reply the
\* normalizer raised on
C22_Witness ==
    /\ Returned
    /\ ~response.success
    /\ Len(Posts) = 3
    /\ Posts[1].o.parse = "content_type"
    /\ Posts[2].o.parse = "decode"
    /\ Unnormalized200(Posts[3])
    /\ Sleeps[1].n = 1 /\ Sleeps[2].n = 2

(***************************************************************************)
(* The order of the scan of load_custom_agents, checked under SpecLoad.    *)
(***************************************************************************)
\* the variable <prefix of platform p><n><field> of the environment
SlotField(env, p, n, field) == getenv(env, platforms[p].prefix \o IntStr(n) \o field)

\* the agent type of slot n of platform p
SlotType(env, p, n) == Lower(GetEnv(SlotField(env, p, n, K_TYPE), S_custom))

\* slot n of platform p has every field required of its type
SlotComplete(env, p, n) ==
    /\ Truthy(SlotField(env, p, n, K_NAME))
    /\ Truthy(SlotField(env, p, n, K_COLOR))
    /\ (SlotType(env, p, n) = S_custom => Truthy(SlotField(env, p, n, K_ENDPOINT)))

\* slot n of platform p is a custom agent with a placeholder endpoint
SlotPlaceholder(env, p, n) ==
    /\ SlotType(env, p, n) = S_custom
    /\ Truthy(SlotField(env, p, n, K_ENDPOINT))
    /\ StartsWith(SlotField(env, p, n, K_ENDPOINT).v, S_placeholder)

\* the slots to load: no slot of the platform up to this one lacks a
\* required field, and this one has no placeholder endpoint
SlotsToLoad(env) ==
    {s \in (1..Len(platforms)) \X (1..(MaxSlots + 1)) :
        /\ \A m \in 1..s[2] : SlotComplete(env, s[1], m)
        /\ ~SlotPlaceholder(env, s[1], s[2])}

\* the place of slot s among the slots L, by platform and then by number
SlotRank(L, s) ==
    Cardinality({r \in L : r[1] < s[1] \/ (r[1] = s[1] /\ r[2] <= s[2])})

\* C23: load_custom_agents returns one config for each slot that comes
\* before the first slot of its platform with a missing required field and
\* has no placeholder endpoint, and for no other slot; the configs are in
\* the order of the platforms AWS, Azure, GCP, Multi-Cloud, BuiltIn and,
\* within a platform, of the slot numbers.
C23_ScanStopsSkipsAndOrders ==
    Loaded =>
       LET L == SlotsToLoad(environ)
       IN
       /\ Len(agents) = Cardinality(L)
       /\ \A s \in L :
             LET a == agents[SlotRank(L, s)]
             IN  /\ a.platform = platforms[s[1]].platform_name
                 /\ a.name = SlotField(environ, s[1], s[2], K_NAME).v
                 /\ a.favorite_color = SlotField(environ, s[1], s[2], K_COLOR).v
                 /\ a.agent_type = SlotType(environ, s[1], s[2])
                 /\ (a.agent_type = S_custom =>
                        a.endpoint = SlotField(environ, s[1], s[2], K_ENDPOINT))

\* AWS slot 1 has a placeholder endpoint and slot 2 is loaded; the GCP agent
\* comes after it; BuiltIn slot 1 lacks a field and slot 2, though complete,
\* is not loaded
C23_Witness ==
    /\ Loaded
    /\ SlotPlaceholder(environ, 1, 1)
    /\ SlotsToLoad(environ) = {<<1, 2>>, <<3, 1>>}
    /\ ~SlotComplete(environ, 5, 1)
    /\ SlotComplete(environ, 5, 2)
    /\ Len(agents) = 2
    /\ agents[1].platform = platforms[1].platform_name
    /\ agents[2].platform = platforms[3].platform_name

(***************************************************************************)
(* Properties of the configuration manager, checked under SpecManage.      *)
(***************************************************************************)
\* C24: when should_use_custom_agents returns (called directly or by
\* list_agents) after enable_custom_agents or disable_custom_agents was
\* called in the process, it returns true if and only if the last of these
\* calls was enable_custom_agents.
C24_ShouldUseFollowsLastToggle ==
    (mop \in {"should_use", "list"} /\ last_toggle # "none") =>
       (use_custom <=> last_toggle = "enable")

\* what should_use_custom_agents returns is what the environment of the
\* process says, and the file changes the environment only for a variable
\* that is not set in it yet
C24_ShouldUseFollowsEnvironment ==
    mop \in {"should_use", "list"} =>
       /\ K_USE \in DOMAIN config_file => K_USE \in DOMAIN environ
       /\ use_custom <=> (K_USE \in DOMAIN environ /\ Lower(environ[K_USE]) = S_true)

\* should_use_custom_agents has returned true after disable_custom_agents
C24_StaleFlagReached ==
    /\ mop = "should_use"
    /\ last_toggle = "disable"
    /\ use_custom
    /\ config_file[K_USE] = <<"f","a","l","s","e">>

\* C25: of two add_custom_agent calls for the same platform in one process,
\* the later one writes to another slot than the earlier one, and the file
\* still holds the name, endpoint and color the earlier call wrote.
C25_AddsWriteFreshSlots ==
    \A i, j \in 1..Len(added) :
       (i < j /\ added[i].proc = added[j].proc /\ added[i].prefix = added[j].prefix) =>
          LET slot == added[i].prefix \o IntStr(added[i].slot)
          IN  /\ added[i].slot # added[j].slot
              /\ config_file[slot \o K_NAME] = added[i].name
              /\ config_file[slot \o K_ENDPOINT] = added[i].endpoint
              /\ config_file[slot \o K_COLOR] = added[i].favorite_color

\* an add_custom_agent call writes to the first slot whose NAME variable the
\* environment of the process does not have, whatever the file holds
C25_SlotChosenByEnvironment ==
    \A i \in 1..Len(added) :
       \A n \in 1..(added[i].slot - 1) :
          added[i].proc = proc =>
             Truthy(getenv(environ, added[i].prefix \o IntStr(n) \o K_NAME))

\* two agents were added for AWS in one process and only the second is in
\* the file
C25_OverwriteReached ==
    /\ Len(added) = 2
    /\ added[1].proc = added[2].proc
    /\ added[1].prefix = platforms[1].prefix /\ added[2].prefix = platforms[1].prefix
    /\ added[1].slot = 1 /\ added[2].slot = 1
    /\ added[1].name # added[2].name
    /\ config_file[platforms[1].prefix \o <<"1">> \o K_NAME] = added[2].name

\* the API key given to add_custom_agent is a real one
RealKey(a) ==
    /\ a.authenticated
    /\ a.api_key # <<>>
    /\ Upper(a.api_key) \notin {S_NONE, S_NULL}
    /\ ~StartsWith(a.api_key, S_your)

\* the config k of agents is the agent the add call a gave
LoadedAs(a, k) ==
    /\ agents[k].name = a.name
    /\ agents[k].endpoint = JStr(a.endpoint)
    /\ agents[k].favorite_color = a.favorite_color
    /\ is_authenticated(agents[k].api_key) <=> RealKey(a)

\* C26: when load_custom_agents has returned, every agent that was added by
\* add_custom_agent with an endpoint that is no placeholder is among the
\* configs returned, with its name, endpoint and color, and authenticated
\* exactly when it was added with a real API key.
C26_AddedAgentIsLoaded ==
    mop = "load" =>
       \A i \in 1..Len(added) :
          ~StartsWith(added[i].endpoint, S_placeholder) =>
             \E k \in 1..Len(agents) : LoadedAs(added[i], k)

\* the same for a run with a single add_custom_agent call, for a platform
\* other than Multi-Cloud, into a file that held no agent
C26_SingleAddOffMultiCloudIsLoaded ==
    (/\ mop = "load"
     /\ Len(added) = 1
     /\ added[1].prefix \in {platforms[p].prefix : p \in 1..3}
     /\ \A key \in DOMAIN config_file :
           key = K_USE \/ StartsWith(key, added[1].prefix \o <<"1">>)) =>
       (~StartsWith(added[1].endpoint, S_placeholder) =>
           \E k \in 1..Len(agents) : LoadedAs(added[1], k))

\* an agent added for Multi-Cloud alone is not among the configs loaded
C26_MultiCloudLostReached ==
    /\ mop = "load"
    /\ Len(added) = 1
    /\ added[1].platform = platforms[4].platform_name
    /\ added[1].prefix # platforms[4].prefix
    /\ agents = <<>>

=============================================================================
